---- MODULE Spec2Model ----
(***************************************************************************)
(* Model of the video pipeline: Transform (video-processor), Transcription *)
(* (caption-generator), Caption (ai-caption-agent) and Assembly            *)
(* (file-assembler) work endpoints, plus the SRT timestamp formatter.      *)
(*                                                                         *)
(* Text is modelled as a sequence of one-character strings, so that        *)
(* split, strip, startswith and slicing are computed, not assumed.         *)
(* A Python float is modelled by its exact value: an integer part and the  *)
(* binary digits after the point, at most 53 significant bits in all.      *)
(***************************************************************************)
EXTENDS Integers, Sequences, FiniteSets, TLC

\* ------------------------------------------------------------------------
\* Bounds of the model
\* ------------------------------------------------------------------------

\* segment times n/1000 s, n in 0..MaxMillis, are formatted
MaxMillis == 130

\* requests served in one run of the model
MaxRequests == 2

\* the longest title the generation response is given, in characters
MaxTitle == 62

\* the most lines a generation response is given
MaxLines == 2

\* the most parts a video name handed to Assembly is made of
MaxParts == 3

\* ------------------------------------------------------------------------
\* Python float (IEEE-754 binary64)
\* ------------------------------------------------------------------------

\* significant bits of a binary64 mantissa
FloatPrecision == 53

\* 1000 < 2^10: the product of a fraction by 1000 has 10 integer bits
MillisBits == 10

\* bits handled per step of the long division and of the multiplication
ChunkBits == 8

\* chunks of fraction bits produced by the long division; with the integer
\* bits in front this is more than a mantissa plus its guard bit
FracChunks == 10

\* bits of the integer part of a time
IntBits == 31

\* the w-bit binary writing of v, first bit highest
ToBits(v, w) == [i \in 1..w |-> (v \div (2 ^ (w - i))) % 2]

RECURSIVE BitsValue(_)
\* the natural number written by a bit sequence, first bit highest
BitsValue(bits) ==
  IF bits = <<>> THEN 0
  ELSE 2 * BitsValue(SubSeq(bits, 1, Len(bits) - 1)) + bits[Len(bits)]

\* index of the first 1 bit, 0 when there is none
FirstOne(bits) ==
  IF \E i \in 1..Len(bits) : bits[i] = 1
  THEN CHOOSE i \in 1..Len(bits) : bits[i] = 1 /\ \A j \in 1..(i - 1) : bits[j] = 0
  ELSE 0

\* index of the last 1 bit, 0 when there is none
LastOne(bits) ==
  IF \E i \in 1..Len(bits) : bits[i] = 1
  THEN CHOOSE i \in 1..Len(bits) :
         bits[i] = 1 /\ \A j \in (i + 1)..Len(bits) : bits[j] = 0
  ELSE 0

\* the same fraction without its trailing zero bits
StripZeros(bits) == SubSeq(bits, 1, LastOne(bits))

\* bits + 1 on the same width (the callers leave room for the carry)
IncBits(bits) ==
  LET z == IF \E i \in 1..Len(bits) : bits[i] = 0
           THEN CHOOSE i \in 1..Len(bits) :
                  bits[i] = 0 /\ \A j \in (i + 1)..Len(bits) : bits[j] = 1
           ELSE 0
  IN  [i \in 1..Len(bits) |-> IF i < z THEN bits[i] ELSE IF i = z THEN 1 ELSE 0]

\* round-half-to-even of a bit string to its first FloatPrecision significant
\* bits; the result keeps the position of the binary point (same width)
RoundNearestEven(bits) ==
  LET p    == FirstOne(bits)
      last == p + FloatPrecision - 1
  IN  IF p = 0 \/ last >= Len(bits) THEN bits
      ELSE LET kept   == SubSeq(bits, 1, last)
               guard  == bits[last + 1]
               sticky == \E i \in (last + 2)..Len(bits) : bits[i] = 1
               up     == guard = 1 /\ (sticky \/ kept[last] = 1)
               zeros  == [i \in 1..(Len(bits) - last) |-> 0]
           IN  IF up THEN IncBits(kept) \o zeros ELSE kept \o zeros

\* a fraction padded with zero bits to whole chunks
PadChunks(bits) ==
  bits \o [i \in 1..((ChunkBits - (Len(bits) % ChunkBits)) % ChunkBits) |-> 0]

RECURSIVE MulChunks(_, _, _)
\* bits * k + carry for whole chunks, written on Len(bits) + MillisBits bits
MulChunks(bits, k, carry) ==
  IF bits = <<>> THEN ToBits(carry, MillisBits)
  ELSE LET n == Len(bits)
           v == BitsValue(SubSeq(bits, n - ChunkBits + 1, n)) * k + carry
       IN  MulChunks(SubSeq(bits, 1, n - ChunkBits), k, v \div (2 ^ ChunkBits))
             \o ToBits(v % (2 ^ ChunkBits), ChunkBits)

\* the exact product frac * k: MillisBits integer bits, then the fraction
ExactMul(frac, k) == MulChunks(PadChunks(frac), k, 0)

\* float multiplication frac * k as binary64 computes it
FloatMul(frac, k) == RoundNearestEven(ExactMul(frac, k))

\* int(x) of a product: its integer bits
IntPart(prod) == BitsValue(SubSeq(prod, 1, MillisBits))

RECURSIVE FracDigits(_, _, _)
\* the first n chunks of binary digits of r/den, then one bit that says
\* whether digits other than 0 follow
FracDigits(r, den, n) ==
  IF n = 0 THEN <<IF r = 0 THEN 0 ELSE 1>>
  ELSE ToBits((r * (2 ^ ChunkBits)) \div den, ChunkBits)
         \o FracDigits((r * (2 ^ ChunkBits)) % den, den, n - 1)

\* the binary64 value nearest to the decimal num/den (what a segment time
\* written num/den is once it is a Python float)
NearestDouble(num, den) ==
  LET all == ToBits(num \div den, IntBits) \o FracDigits(num % den, den, FracChunks)
      r   == RoundNearestEven(all)
  IN  [int  |-> BitsValue(SubSeq(r, 1, IntBits)),
       frac |-> StripZeros(SubSeq(r, IntBits + 1, IntBits + FracChunks * ChunkBits))]

\* ------------------------------------------------------------------------
\* Text
\* ------------------------------------------------------------------------

DigitChar == <<"0", "1", "2", "3", "4", "5", "6", "7", "8", "9">>

RECURSIVE Digits(_)
\* str(n) for a natural number
Digits(n) ==
  IF n < 10 THEN <<DigitChar[n + 1]>>
  ELSE Digits(n \div 10) \o <<DigitChar[(n % 10) + 1]>>

RECURSIVE ZeroPad(_, _)
\* f"{n:0wd}": at least w digits, zeros on the left
ZeroPad(digits, w) ==
  IF Len(digits) >= w THEN digits ELSE ZeroPad(<<"0">> \o digits, w)

\* ------------------------------------------------------------------------
\* caption-generator: SRT timestamps
\* ------------------------------------------------------------------------

\* CaptionGenerator.format_timestamp
format_timestamp(seconds) ==
  LET hours   == seconds.int \div 3600
      minutes == (seconds.int % 3600) \div 60
      secs    == [int |-> seconds.int % 60, frac |-> seconds.frac]
      millis  == IntPart(FloatMul(secs.frac, 1000))
  IN  ZeroPad(Digits(hours), 2) \o <<":">> \o ZeroPad(Digits(minutes), 2)
        \o <<":">> \o ZeroPad(Digits(secs.int), 2) \o <<",">>
        \o ZeroPad(Digits(millis), 3)

\* ------------------------------------------------------------------------
\* Text and path helpers (str and pathlib.Path)
\* ------------------------------------------------------------------------

\* s.startswith(prefix)
StartsWith(s, prefix) ==
  Len(s) >= Len(prefix) /\ SubSeq(s, 1, Len(prefix)) = prefix

\* the characters str.strip() removes
Whitespace == {" ", "\n", "\t", "\r"}

\* s.strip(chars): without the leading and trailing characters of the set
StripChars(s, chars) ==
  IF \A i \in 1..Len(s) : s[i] \in chars THEN <<>>
  ELSE LET a == CHOOSE i \in 1..Len(s) :
                  s[i] \notin chars /\ \A j \in 1..(i - 1) : s[j] \in chars
           b == CHOOSE i \in 1..Len(s) :
                  s[i] \notin chars /\ \A j \in (i + 1)..Len(s) : s[j] \in chars
       IN  SubSeq(s, a, b)

\* s.strip()
Strip(s) == StripChars(s, Whitespace)

\* s.find(pat) + 1 for a non-empty pat: where it first occurs, 0 when nowhere
Find(s, pat) ==
  LET at(i) == SubSeq(s, i, i + Len(pat) - 1) = pat
      last  == Len(s) - Len(pat) + 1
  IN  IF \E i \in 1..last : at(i)
      THEN CHOOSE i \in 1..last : at(i) /\ \A j \in 1..(i - 1) : ~at(j)
      ELSE 0

RECURSIVE Split(_, _)
\* s.split(sep) for a one-character sep
Split(s, sep) ==
  IF Find(s, <<sep>>) = 0 THEN <<s>>
  ELSE <<SubSeq(s, 1, Find(s, <<sep>>) - 1)>>
         \o Split(SubSeq(s, Find(s, <<sep>>) + 1, Len(s)), sep)

RECURSIVE Remove(_, _)
\* s.replace(pat, ''): every occurrence of pat removed, left to right
Remove(s, pat) ==
  IF Find(s, pat) = 0 THEN s
  ELSE SubSeq(s, 1, Find(s, pat) - 1)
         \o Remove(SubSeq(s, Find(s, pat) + Len(pat), Len(s)), pat)


\* index of the last "/" of a path, 0 when there is none
LastSlash(p) ==
  IF \E i \in 1..Len(p) : p[i] = "/"
  THEN CHOOSE i \in 1..Len(p) : p[i] = "/" /\ \A j \in (i + 1)..Len(p) : p[j] # "/"
  ELSE 0

\* Path(p).name
PathName(p) == SubSeq(p, LastSlash(p) + 1, Len(p))

\* Path(p).stem: the name without its last suffix; a dot that starts or
\* ends the name starts no suffix
PathStem(p) ==
  LET name == PathName(p)
      dot  == IF \E i \in 1..Len(name) : name[i] = "."
              THEN CHOOSE i \in 1..Len(name) :
                     name[i] = "." /\ \A j \in (i + 1)..Len(name) : name[j] # "."
              ELSE 0
  IN  IF dot > 1 /\ dot < Len(name) THEN SubSeq(name, 1, dot - 1) ELSE name

\* Path(p).suffix: the rest of the name after its stem
PathSuffix(p) == SubSeq(PathName(p), Len(PathStem(p)) + 1, Len(PathName(p)))

\* the upper-case letters and their lower-case letters, in the same order
UpperCase ==
  <<"A", "B", "C", "D", "E", "F", "G", "H", "I", "J", "K", "L", "M", "N", "O",
    "P", "Q", "R", "S", "T", "U", "V", "W", "X", "Y", "Z">>
LowerCase ==
  <<"a", "b", "c", "d", "e", "f", "g", "h", "i", "j", "k", "l", "m", "n", "o",
    "p", "q", "r", "s", "t", "u", "v", "w", "x", "y", "z">>

\* s.lower()
Lower(s) ==
  [i \in 1..Len(s) |->
     IF \E j \in 1..Len(UpperCase) : UpperCase[j] = s[i]
     THEN LowerCase[CHOOSE j \in 1..Len(UpperCase) : UpperCase[j] = s[i]]
     ELSE s[i]]

\* dir / name
Join(dir, name) == dir \o <<"/">> \o name

\* ------------------------------------------------------------------------
\* Job records (Python dict, JSON object)
\* ------------------------------------------------------------------------

EmptyDict == [k \in {} |-> <<>>]

\* d.get(k, default)
Get(d, k, default) == IF k \in DOMAIN d THEN d[k] ELSE default

\* a.update(b), {**a, **b}: the keys of both, b's value where both have one
Update(a, b) ==
  [k \in (DOMAIN a) \cup (DOMAIN b) |-> IF k \in DOMAIN b THEN b[k] ELSE a[k]]

\* "k not in d": absent, an empty text counting as given
Falsy_absent_only(d, k) == k \notin DOMAIN d

\* "not d.get(k)" for a text field: absent or empty
Falsy(d, k) == k \notin DOMAIN d \/ d[k] = <<>>

\* a request body: a JSON object, or JSON that is no object (null)
JsonObject(d) == [isObject |-> TRUE, data |-> d]
JsonNull == [isObject |-> FALSE, data |-> EmptyDict]

\* ------------------------------------------------------------------------
\* Names and directories
\* ------------------------------------------------------------------------

\* "/app/output"
OUTPUT_DIR ==
  <<"/", "a", "p", "p", "/", "o", "u", "t", "p", "u", "t">>

\* "/app/processing"
PROCESSING_DIR ==
  <<"/", "a", "p", "p", "/", "p", "r", "o", "c", "e", "s", "s", "i", "n",
    "g">>

\* "clip.mp4"
ClipName ==
  <<"c", "l", "i", "p", ".", "m", "p", "4">>

\* "gone.mp4"
GoneName ==
  <<"g", "o", "n", "e", ".", "m", "p", "4">>

\* "shorts"
Shorts ==
  <<"s", "h", "o", "r", "t", "s">>

\* "standard"
Standard ==
  <<"s", "t", "a", "n", "d", "a", "r", "d">>

\* "/app/input"
INPUT_DIR ==
  <<"/", "a", "p", "p", "/", "i", "n", "p", "u", "t">>

\* "notes.txt"
NotesName ==
  <<"n", "o", "t", "e", "s", ".", "t", "x", "t">>

\* "CLIP.MP4"
UpperName ==
  <<"C", "L", "I", "P", ".", "M", "P", "4">>

ClipPath == Join(PROCESSING_DIR, ClipName)
GonePath == Join(PROCESSING_DIR, GoneName)

\* ------------------------------------------------------------------------
\* Files
\* ------------------------------------------------------------------------

\* the content of a file: what it is, its text, and the values it holds
File(kind, text, data) == [kind |-> kind, text |-> text, data |-> data]

Exists(files, p) == p \in DOMAIN files

\* open(p, 'w') ... write, ffmpeg output with overwrite, shutil.copy2
WriteFile(files, p, content) ==
  [q \in (DOMAIN files) \cup {p} |-> IF q = p THEN content ELSE files[q]]

\* Path.unlink(missing_ok=True)
Unlink(files, p) == [q \in (DOMAIN files) \ {p} |-> files[q]]

\* ------------------------------------------------------------------------
\* Hand-off
\* ------------------------------------------------------------------------

\* what requests.post does: an answer with a status code, or an exception
\* (connection refused, timeout)
PostOutcomes == {"200", "500", "exception"}

\* send_to_next_step posting a second time when the first POST raised
send_to_next_step_retries(result, post) ==
  [trace     |-> IF post = "exception" THEN <<"post", "post">> ELSE <<"post">>,
   delivered |-> IF post = "exception" THEN <<>> ELSE <<result>>]

\* send_to_next_step of every stage: one POST, the exception swallowed
send_to_next_step(result, post) ==
  [trace     |-> <<"post">>,
   delivered |-> IF post = "exception" THEN <<>> ELSE <<result>>]

\* ------------------------------------------------------------------------
\* video-scraper (Ingestion Watcher)
\* ------------------------------------------------------------------------

\* VideoHandler.supported_formats
supported_formats ==
  {<<".", "m", "p", "4">>,
   <<".", "a", "v", "i">>,
   <<".", "m", "o", "v">>,
   <<".", "m", "k", "v">>,
   <<".", "w", "m", "v">>,
   <<".", "f", "l", "v">>,
   <<".", "w", "e", "b", "m">>}

\* a file-system event of the watched directory
Event(src_path, is_directory) == [src_path |-> src_path, is_directory |-> is_directory]

\* the moment time.time() returns
Now == 1

\* what the watcher did for one event: the files after it, what it did in
\* order, the record delivered downstream (if any), the payload built (if any)
Watched(files, trace, delivered, payload) ==
  [code |-> 0, body |-> EmptyDict, fs |-> files, trace |-> trace,
   delivered |-> delivered, work |-> payload]

\* VideoHandler.process_video posting the payload although the rename raised
relocate_posts_unmoved(video_path, files, o) ==
  LET processing_path == Join(PROCESSING_DIR, PathName(video_path))
      moved   == WriteFile(Unlink(files, video_path), processing_path,
                           files[video_path])
      payload == [video_path |-> processing_path,
                  video_name |-> PathName(processing_path),
                  timestamp  |-> Now]
      s       == send_to_next_step(payload, o.post)
  IN  IF ~Exists(files, video_path) \/ o.rename = "fail"
      THEN Watched(files, <<"rename">> \o s.trace, s.delivered, <<payload>>)
      ELSE Watched(moved, <<"rename", "write">> \o s.trace, s.delivered, <<payload>>)

\* VideoHandler.process_video: rename into the processing directory, then
\* one POST of the payload; rename raises when the file is gone or when the
\* file system refuses (o.rename = "fail")
relocate(video_path, files, o) ==
  LET processing_path == Join(PROCESSING_DIR, PathName(video_path))
      moved   == WriteFile(Unlink(files, video_path), processing_path,
                           files[video_path])
      payload == [video_path |-> processing_path,
                  video_name |-> PathName(processing_path),
                  timestamp  |-> Now]
      s       == send_to_next_step(payload, o.post)
  IN  IF ~Exists(files, video_path) \/ o.rename = "fail"
      THEN Watched(files, <<"rename">>, <<>>, <<>>)
      ELSE Watched(moved, <<"rename", "write">> \o s.trace, s.delivered, <<payload>>)

\* VideoHandler.on_created
on_created(event, files, o) ==
  IF event.is_directory THEN Watched(files, <<>>, <<>>, <<>>)
  ELSE IF Lower(PathSuffix(event.src_path)) \in supported_formats
  THEN relocate(event.src_path, files, o)
  ELSE Watched(files, <<>>, <<>>, <<>>)

\* ------------------------------------------------------------------------
\* video-processor (Transform)
\* ------------------------------------------------------------------------

\* seconds are counted in 1/DurationScale s
DurationScale == 10

\* what ffmpeg.probe gives: an exception, no video stream, a video stream
\* without duration, or a video stream with a duration
Probe(kind, value) == [kind |-> kind, value |-> value]

\* VideoProcessor.get_video_duration: [ok, value], ok = FALSE for None
get_video_duration(probe) ==
  CASE probe.kind = "raise"       -> [ok |-> FALSE, value |-> 0]
    [] probe.kind = "no_video"    -> [ok |-> FALSE, value |-> 0]
    [] probe.kind = "no_duration" -> [ok |-> TRUE, value |-> 0]
    [] OTHER                      -> [ok |-> TRUE, value |-> probe.value]

\* duration < 60: the limit itself taken as standard
IsShort_strict(duration) == duration < 60 * DurationScale

\* duration <= 60
IsShort(duration) == duration <= 60 * DurationScale

\* the dict returned on an exception
ErrorResult(msg) == [error |-> msg, status |-> "error"]

\* VideoProcessor.process_video
process_video(video_path, files, probe, transcode) ==
  LET duration        == get_video_duration(probe)
      output_filename == <<"p", "r", "o", "c", "e", "s", "s", "e", "d", "_">>
                           \o PathStem(video_path) \o <<".", "m", "p", "4">>
      output_path     == Join(OUTPUT_DIR, output_filename)
      is_short        == IsShort(duration.value)
      video_type      == IF is_short THEN Shorts ELSE Standard
      run             == IF is_short THEN "process_shorts" ELSE "process_standard"
  IN  IF ~Exists(files, video_path)
      THEN [result |-> ErrorResult("Video file not found"),
            fs |-> files, trace |-> <<>>]
      ELSE IF ~duration.ok
      THEN [result |-> ErrorResult("Could not determine video duration"),
            fs |-> files, trace |-> <<"probe">>]
      ELSE IF transcode = "fail"
      THEN [result |-> ErrorResult("ffmpeg error"),
            fs |-> files, trace |-> <<"probe", run>>]
      ELSE [result |-> [original_path   |-> video_path,
                        processed_path  |-> output_path,
                        duration        |-> duration.value,
                        video_type      |-> video_type,
                        output_filename |-> output_filename,
                        status          |-> "processed"],
            fs     |-> WriteFile(files, output_path,
                                 File("video", video_type, [src |-> video_path])),
            trace  |-> <<"probe", run, "write">>]

\* the answer of a work endpoint: status code, JSON body, the files after
\* it, what it did in order, the record delivered downstream (if any), and
\* what the stage's unit of work returned (<<>> when it did not run)
Answer(code, body, files, trace, delivered, work) ==
  [code |-> code, body |-> body, fs |-> files, trace |-> trace,
   delivered |-> delivered, work |-> work]

\* process_video_endpoint with the hand-off made before the error check
process_video_endpoint_forwards_errors(request, files, probe, transcode, post) ==
  IF ~request.isObject
  THEN Answer(500, [error |-> "AttributeError"], files, <<>>, <<>>, <<>>)
  ELSE IF Falsy(request.data, "video_path")
  THEN Answer(400, [error |-> "No video_path provided"], files, <<>>, <<>>, <<>>)
  ELSE LET w == process_video(request.data["video_path"], files, probe, transcode)
           s == send_to_next_step(w.result, post)
       IN  IF "error" \in DOMAIN w.result
           THEN Answer(500, w.result, w.fs, w.trace \o s.trace, s.delivered,
                       <<w.result>>)
           ELSE Answer(200, w.result, w.fs, w.trace \o s.trace, s.delivered,
                       <<w.result>>)

\* process_video_endpoint (POST /process)
process_video_endpoint(request, files, probe, transcode, post) ==
  IF ~request.isObject
  THEN Answer(500, [error |-> "AttributeError"], files, <<>>, <<>>, <<>>)
  ELSE IF Falsy(request.data, "video_path")
  THEN Answer(400, [error |-> "No video_path provided"], files, <<>>, <<>>, <<>>)
  ELSE LET w == process_video(request.data["video_path"], files, probe, transcode)
           s == send_to_next_step(w.result, post)
       IN  IF "error" \in DOMAIN w.result
           THEN Answer(500, w.result, w.fs, w.trace, <<>>, <<w.result>>)
           ELSE Answer(200, w.result, w.fs, w.trace \o s.trace, s.delivered,
                       <<w.result>>)

\* ------------------------------------------------------------------------
\* caption-generator (Transcription)
\* ------------------------------------------------------------------------

\* "temp_audio.wav"
TempAudioName ==
  <<"t", "e", "m", "p", "_", "a", "u", "d", "i", "o", ".", "w", "a", "v">>

\* " Hello world."
HelloText ==
  <<" ", "H", "e", "l", "l", "o", " ", "w", "o", "r", "l", "d", ".">>

\* a timed segment of the speech-to-text result
Segment(start, end, text) == [start |-> start, end |-> end, text |-> text]

RECURSIVE SrtEntries(_, _)
\* the entries create_srt_file writes for segments i, i+1, ...
SrtEntries(segments, i) ==
  IF i > Len(segments) THEN <<>>
  ELSE Digits(i) \o <<"\n">>
         \o format_timestamp(segments[i].start) \o <<" ", "-", "-", ">", " ">>
         \o format_timestamp(segments[i].end) \o <<"\n">>
         \o Strip(segments[i].text) \o <<"\n", "\n">>
         \o SrtEntries(segments, i + 1)

\* CaptionGenerator.create_srt_file: the text of the SRT file
create_srt_file(segments) == SrtEntries(segments, 1)

\* what model.transcribe returns when it does not raise
WhisperResults ==
  {[text     |-> HelloText,
    segments |-> <<Segment(NearestDouble(0, 1), NearestDouble(4100, 1000),
                           HelloText)>>,
    language |-> "en"],
   [text     |-> <<>>,
    segments |-> <<>>]}

\* what the speech-to-text call does: raise, or return one of the results
TranscribeOutcomes ==
  {[raise |-> TRUE, result |-> EmptyDict]}
    \cup {[raise |-> FALSE, result |-> r] : r \in WhisperResults}

\* how the steps of one transcription end: extract is "ok", "fail" (no file
\* left) or "fail_file" (ffmpeg failed after it created the output file),
\* the two writes are "ok" or "fail"
\* (a step after the one that fails does not run, so it has no outcome of
\* its own)
TranscriptionOutcomes ==
  {o \in [extract : {"ok", "fail", "fail_file"}, transcribe : TranscribeOutcomes,
          srt : {"ok", "fail"}, transcript : {"ok", "fail"}, post : PostOutcomes] :
     /\ o.extract # "ok" => o.transcribe.raise
     /\ o.transcribe.raise => o.srt = "fail"
     /\ o.srt = "fail" => o.transcript = "fail"
     /\ o.transcript = "fail" => o.post = "exception"}

\* CaptionGenerator.generate_subtitles
generate_subtitles(video_path, output_dir, files, o) ==
  LET audio_path      == Join(output_dir, TempAudioName)
      audio           == File("audio", <<>>, [src |-> video_path])
      extracted       == WriteFile(files, audio_path, audio)
      result          == o.transcribe.result
      srt_path        == Join(output_dir, PathStem(video_path) \o <<".", "s", "r", "t">>)
      transcript_path == Join(output_dir, PathStem(video_path)
                           \o <<"_", "t", "r", "a", "n", "s", "c", "r", "i", "p", "t",
                                ".", "t", "x", "t">>)
      withSrt         == WriteFile(extracted, srt_path,
                           File("srt", create_srt_file(result["segments"]), EmptyDict))
      withTranscript  == WriteFile(withSrt, transcript_path,
                           File("transcript", result["text"], EmptyDict))
  IN  IF ~Exists(files, video_path)
      THEN [result |-> ErrorResult("Video file not found"),
            fs |-> files, trace |-> <<>>]
      ELSE IF o.extract = "fail"
      THEN [result |-> ErrorResult("ffmpeg error"),
            fs |-> files, trace |-> <<"extract">>]
      ELSE IF o.extract = "fail_file"
      THEN [result |-> ErrorResult("ffmpeg error"),
            fs |-> extracted, trace |-> <<"extract", "write">>]
      ELSE IF o.transcribe.raise
      THEN [result |-> ErrorResult("transcribe error"),
            fs |-> extracted, trace |-> <<"extract", "write", "transcribe">>]
      ELSE IF o.srt = "fail"
      THEN [result |-> ErrorResult("cannot write srt"),
            fs |-> extracted, trace |-> <<"extract", "write", "transcribe">>]
      ELSE IF o.transcript = "fail"
      THEN [result |-> ErrorResult("cannot write transcript"),
            fs |-> withSrt,
            trace |-> <<"extract", "write", "transcribe", "write">>]
      ELSE [result |-> [srt_path        |-> srt_path,
                        transcript_path |-> transcript_path,
                        transcript      |-> result["text"],
                        language        |-> Get(result, "language", "en"),
                        status          |-> "subtitles_generated"],
            fs     |-> Unlink(withTranscript, audio_path),
            trace  |-> <<"extract", "write", "transcribe", "write", "write",
                         "unlink">>]

\* processed_path if processed_path else video_path (<<>> when both are
\* absent or empty)
TargetVideoPath(data) ==
  IF ~Falsy(data, "processed_path") THEN data["processed_path"]
  ELSE Get(data, "video_path", <<>>)

\* generate_subtitles_endpoint (POST /generate-subtitles)
generate_subtitles_endpoint(request, files, o, post) ==
  IF ~request.isObject
  THEN Answer(500, [error |-> "AttributeError"], files, <<>>, <<>>, <<>>)
  ELSE IF Falsy(request.data, "video_path") /\ Falsy(request.data, "processed_path")
  THEN Answer(400, [error |-> "No video path provided"], files, <<>>, <<>>, <<>>)
  ELSE LET data              == request.data
           target_video_path == TargetVideoPath(data)
           w      == generate_subtitles(target_video_path, OUTPUT_DIR, files, o)
           result == Update(w.result, data)
           s      == send_to_next_step(result, post)
       IN  IF "error" \in DOMAIN w.result
           THEN Answer(500, w.result, w.fs, w.trace, <<>>, <<w.result>>)
           ELSE Answer(200, result, w.fs, w.trace \o s.trace, s.delivered,
                       <<w.result>>)

\* ------------------------------------------------------------------------
\* ai-caption-agent (Caption)
\* ------------------------------------------------------------------------

\* "TITLE:"
TitlePrefix ==
  <<"T", "I", "T", "L", "E", ":">>

\* "DESCRIPTION:"
DescriptionPrefix ==
  <<"D", "E", "S", "C", "R", "I", "P", "T", "I", "O", "N", ":">>

\* "TAGS:"
TagsPrefix ==
  <<"T", "A", "G", "S", ":">>

\* "Unknown"
Unknown ==
  <<"U", "n", "k", "n", "o", "w", "n">>

\* "Hello world."
HelloWorld ==
  <<"H", "e", "l", "l", "o", " ", "w", "o", "r", "l", "d", ".">>

\* "TITLE: Hi there\nDESCRIPTION: A clip.\nTAGS: [fun, clip]"
ResponseFull ==
  <<"T", "I", "T", "L", "E", ":", " ", "H", "i", " ", "t", "h", "e", "r",
    "e", "\n", "D", "E", "S", "C", "R", "I", "P", "T", "I", "O", "N", ":",
    " ", "A", " ", "c", "l", "i", "p", ".", "\n", "T", "A", "G", "S", ":",
    " ", "[", "f", "u", "n", ",", " ", "c", "l", "i", "p", "]">>

\* "Here you go!"
ResponseChat ==
  <<"H", "e", "r", "e", " ", "y", "o", "u", " ", "g", "o", "!">>

\* " DESCRIPTION: Only this.\n"
ResponseNoTitle ==
  <<" ", "D", "E", "S", "C", "R", "I", "P", "T", "I", "O", "N", ":", " ",
    "O", "n", "l", "y", " ", "t", "h", "i", "s", ".", "\n">>

\* " \n"
ResponseBlank ==
  <<" ", "\n">>

\* what the generation call does: raise (timeout, non-success status,
\* a body that is no JSON), or answer JSON with this "response" text
Ollama(raise, text) == [raise |-> raise, text |-> text]

\* AICaptionAgent.generate_with_ollama: the stripped text, '' on an exception
generate_with_ollama(ollama) == IF ollama.raise THEN <<>> ELSE Strip(ollama.text)

\* title[:57] + "..." when the title has more than 60 characters
LimitTitle(title) ==
  IF Len(title) > 60 THEN SubSeq(title, 1, 57) \o <<".", ".", ".">> ELSE title

\* [tag.strip() for tag in tags_str.split(',') if tag.strip()]
TagList(tags_str) ==
  LET parts == Split(tags_str, ",")
  IN  SelectSeq([i \in 1..Len(parts) |-> Strip(parts[i])], LAMBDA t : t # <<>>)

RECURSIVE ParseLines(_, _, _)
\* the loop of _parse_response over lines i, i+1, ...: acc holds title,
\* description and tags as they stand before line i
ParseLines(lines, i, acc) ==
  IF i > Len(lines) THEN acc
  ELSE LET line == Strip(lines[i])
       IN  IF StartsWith(line, TitlePrefix)
           THEN ParseLines(lines, i + 1,
                  [acc EXCEPT !.title = LimitTitle(Strip(Remove(line, TitlePrefix)))])
           ELSE IF StartsWith(line, DescriptionPrefix)
           THEN ParseLines(lines, i + 1,
                  [acc EXCEPT !.description = Strip(Remove(line, DescriptionPrefix))])
           ELSE IF StartsWith(line, TagsPrefix)
           THEN ParseLines(lines, i + 1,
                  [acc EXCEPT !.tags =
                     TagList(StripChars(Strip(Remove(line, TagsPrefix)), {"[", "]"}))])
           ELSE ParseLines(lines, i + 1, acc)

\* AICaptionAgent._parse_response
parse_response(response_text, video_name, video_type) ==
  LET defaults ==
        [title       |-> <<"A", "w", "e", "s", "o", "m", "e", " ">> \o video_type
                           \o <<" ", "-", " ">> \o video_name,
         description |-> <<"W", "a", "t", "c", "h", " ", "t", "h", "i",
                             "s", " ", "e", "n", "g", "a", "g", "i", "n",
                             "g", " ">> \o video_type
                           \o <<" ", "v", "i", "d", "e", "o", " ", "a", "b",
                             "o", "u", "t", " ">> \o video_name
                           \o <<".", " ", "D", "o", "n", "'", "t", " ", "f",
                             "o", "r", "g", "e", "t", " ", "t", "o", " ",
                             "l", "i", "k", "e", " ", "a", "n", "d", " ",
                             "s", "u", "b", "s", "c", "r", "i", "b", "e",
                             " ", "f", "o", "r", " ", "m", "o", "r", "e",
                             " ", "c", "o", "n", "t", "e", "n", "t", "!">>,
         tags        |-> <<video_type, video_name, <<"v", "i", "d", "e", "o">>,
                           <<"c", "o", "n", "t", "e", "n", "t">>,
                           <<"a", "w", "e", "s", "o", "m", "e">>>>]
      parsed == ParseLines(Split(response_text, "\n"), 1, defaults)
  IN  [title |-> parsed.title, description |-> parsed.description,
       tags |-> parsed.tags, status |-> "captions_generated"]

\* AICaptionAgent._create_fallback_captions
create_fallback_captions(video_name, video_type) ==
  [title       |-> <<"G", "r", "e", "a", "t", " ">> \o video_type
                     \o <<" ", "-", " ">> \o video_name,
   description |-> <<"W", "a", "t", "c", "h", " ", "t", "h", "i",
                             "s", " ", "a", "m", "a", "z", "i", "n", "g",
                             " ">> \o video_type
                     \o <<" ", "v", "i", "d", "e", "o", " ", "a", "b",
                             "o", "u", "t", " ">> \o video_name
                     \o <<".", " ", "D", "o", "n", "'", "t", " ", "f",
                             "o", "r", "g", "e", "t", " ", "t", "o", " ",
                             "l", "i", "k", "e", " ", "a", "n", "d", " ",
                             "s", "u", "b", "s", "c", "r", "i", "b", "e",
                             " ", "f", "o", "r", " ", "m", "o", "r", "e",
                             " ", "g", "r", "e", "a", "t", " ", "c", "o",
                             "n", "t", "e", "n", "t", "!">>,
   tags        |-> <<video_type, video_name, <<"v", "i", "d", "e", "o">>,
                     <<"c", "o", "n", "t", "e", "n", "t">>,
                     <<"m", "u", "s", "t", " ", "w", "a", "t", "c", "h">>>>,
   status      |-> "captions_generated"]

\* generate_captions reporting a failed generation instead of falling back
generate_captions_no_fallback(transcript, video_type, video_name, duration, ollama) ==
  LET generated_text == generate_with_ollama(ollama)
  IN  IF generated_text = <<>>
      THEN ErrorResult("generation failed")
      ELSE parse_response(generated_text, video_name, video_type)

\* AICaptionAgent.generate_captions
generate_captions(transcript, video_type, video_name, duration, ollama) ==
  LET generated_text == generate_with_ollama(ollama)
  IN  IF generated_text = <<>>
      THEN create_fallback_captions(video_name, video_type)
      ELSE parse_response(generated_text, video_name, video_type)

\* generate_captions_endpoint writing the video_type it used into the record
generate_captions_endpoint_resets_type(request, files, ollama, post) ==
  IF ~request.isObject
  THEN Answer(500, [error |-> "AttributeError"], files, <<>>, <<>>, <<>>)
  ELSE IF Falsy(request.data, "transcript")
  THEN Answer(400, [error |-> "No transcript provided"], files, <<>>, <<>>, <<>>)
  ELSE LET data     == request.data
           captions == generate_captions(data["transcript"], Standard,
                         Get(data, "video_name", Unknown),
                         Get(data, "duration", 0), ollama)
           result   == Update(Update(data, captions), [video_type |-> Standard])
           s        == send_to_next_step(result, post)
       IN  Answer(200, result, files, <<"generate">> \o s.trace, s.delivered,
                  <<captions>>)

\* generate_captions_endpoint (POST /generate-captions)
generate_captions_endpoint(request, files, ollama, post) ==
  IF ~request.isObject
  THEN Answer(500, [error |-> "AttributeError"], files, <<>>, <<>>, <<>>)
  ELSE IF Falsy(request.data, "transcript")
  THEN Answer(400, [error |-> "No transcript provided"], files, <<>>, <<>>, <<>>)
  ELSE LET data     == request.data
           captions == generate_captions(data["transcript"],
                         Get(data, "video_type", Standard),
                         Get(data, "video_name", Unknown),
                         Get(data, "duration", 0), ollama)
           result   == Update(data, captions)
           s        == send_to_next_step(result, post)
       IN  Answer(200, result, files, <<"generate">> \o s.trace, s.delivered,
                  <<captions>>)

\* ------------------------------------------------------------------------
\* file-assembler (Assembly)
\* ------------------------------------------------------------------------

\* "unknown"
UnknownFolder ==
  <<"u", "n", "k", "n", "o", "w", "n">>

\* "youtube_metadata.json"
MetadataName ==
  <<"y", "o", "u", "t", "u", "b", "e", "_", "m", "e", "t", "a", "d", "a",
    "t", "a", ".", "j", "s", "o", "n">>

\* "video_captions.txt"
CaptionsName ==
  <<"v", "i", "d", "e", "o", "_", "c", "a", "p", "t", "i", "o", "n", "s",
    ".", "t", "x", "t">>

\* "processing_summary.json"
SummaryName ==
  <<"p", "r", "o", "c", "e", "s", "s", "i", "n", "g", "_", "s", "u", "m",
    "m", "a", "r", "y", ".", "j", "s", "o", "n">>

\* d.get(k) where None is a possible answer: <<value>> or <<>>
Optional(d, k) == IF k \in DOMAIN d THEN <<d[k]>> ELSE <<>>

\* an entry of the files list
Entry(type, path) == [type |-> type, path |-> path, name |-> PathName(path)]

\* what one assembly has done so far: the files on disk, the files list,
\* the metadata dict, and whether an exception has been raised
Progress(files, list, metadata, failed) ==
  [fs |-> files, files |-> list, metadata |-> metadata, failed |-> failed]

\* the copy of one artifact, listing the destination also when the source
\* file does not exist
CopyArtifact_lists_missing(st, video_data, field, type, prefix, final_folder, o) ==
  IF st.failed \/ field \notin DOMAIN video_data THEN st
  ELSE IF o.failing = type THEN [st EXCEPT !.failed = TRUE]
  ELSE LET src  == video_data[field]
           dest == Join(final_folder, prefix \o PathName(src))
       IN  IF src = dest THEN [st EXCEPT !.failed = TRUE] ELSE
           Progress(IF Exists(st.fs, src) THEN WriteFile(st.fs, dest, st.fs[src])
                    ELSE st.fs,
                    Append(st.files, Entry(type, dest)),
                    IF type = "video" THEN [video_file |-> dest] ELSE st.metadata,
                    FALSE)

\* the copy of one artifact: skipped when the field is absent or its file
\* does not exist; o.failing names the file operation that raises, and
\* shutil.copy2 raises when source and destination are the same file
CopyArtifact(st, video_data, field, type, prefix, final_folder, o) ==
  IF st.failed \/ field \notin DOMAIN video_data
     \/ ~Exists(st.fs, video_data[field])
  THEN st
  ELSE IF o.failing = type
  THEN [st EXCEPT !.failed = TRUE]
  ELSE LET src  == video_data[field]
           dest == Join(final_folder, prefix \o PathName(src))
       IN  IF src = dest THEN [st EXCEPT !.failed = TRUE] ELSE
           Progress(WriteFile(st.fs, dest, st.fs[src]),
                    Append(st.files, Entry(type, dest)),
                    IF type = "video" THEN [video_file |-> dest] ELSE st.metadata,
                    FALSE)

\* the write of one document, opened for appending
WriteDocument_appends(st, wanted, type, path, content, o) ==
  IF st.failed \/ ~wanted THEN st
  ELSE IF o.failing = type THEN [st EXCEPT !.failed = TRUE]
  ELSE Progress(WriteFile(st.fs, path,
                  IF Exists(st.fs, path)
                  THEN File(content.kind, st.fs[path].text \o <<"+">>, content.data)
                  ELSE content),
                Append(st.files, Entry(type, path)), st.metadata, FALSE)

\* the write of one document
WriteDocument(st, wanted, type, path, content, o) ==
  IF st.failed \/ ~wanted THEN st
  ELSE IF o.failing = type THEN [st EXCEPT !.failed = TRUE]
  ELSE Progress(WriteFile(st.fs, path, content),
                Append(st.files, Entry(type, path)), st.metadata, FALSE)

\* assemble_final_output writing the caption documents for every record
assemble_final_output_always_captions(video_data, files, o) ==
  LET video_name   == Remove(Remove(Remove(Get(video_data, "video_name", UnknownFolder),
                                           <<".", "m", "p", "4">>),
                                    <<".", "m", "o", "v">>),
                             <<".", "a", "v", "i">>)
      final_folder == Join(OUTPUT_DIR, video_name)
      made      == WriteFile(files, final_folder, File("dir", <<>>, EmptyDict))
      st0       == Progress(made, <<>>, EmptyDict, FALSE)
      st1       == CopyArtifact(st0, video_data, "processed_path", "video",
                                <<"f", "i", "n", "a", "l", "_">>, final_folder, o)
      st2       == CopyArtifact(st1, video_data, "srt_path", "subtitle", <<>>,
                                final_folder, o)
      st3       == CopyArtifact(st2, video_data, "transcript_path", "transcript",
                                <<>>, final_folder, o)
      document  == [title       |-> Optional(video_data, "title"),
                    description |-> Optional(video_data, "description"),
                    tags        |-> Get(video_data, "tags", <<>>),
                    video_type  |-> Get(video_data, "video_type", Standard),
                    duration    |-> Get(video_data, "duration", 0)]
      st4       == WriteDocument(st3, TRUE, "metadata",
                                 Join(final_folder, MetadataName),
                                 File("json", <<>>, document), o)
      st5       == WriteDocument(st4, TRUE, "captions",
                                 Join(final_folder, CaptionsName),
                                 File("text", <<>>, document), o)
      summary   == [original_video    |-> Optional(video_data, "original_path"),
                    video_type        |-> Optional(video_data, "video_type"),
                    duration          |-> Optional(video_data, "duration"),
                    processing_steps  |-> "completed",
                    transcript_length |-> Len(Get(video_data, "transcript", <<>>)),
                    language          |-> Get(video_data, "language", "en")]
      st6       == WriteDocument(st5, TRUE, "summary",
                                 Join(final_folder, SummaryName),
                                 File("json", <<>>, summary), o)
  IN  IF o.mkdir = "fail"
      THEN [result |-> ErrorResult("cannot create folder"), fs |-> files,
            trace |-> <<"mkdir">>]
      ELSE IF st6.failed
      THEN [result |-> ErrorResult("cannot write file"), fs |-> st6.fs,
            trace |-> <<"mkdir">> \o [i \in 1..Len(st6.files) |-> "write"]]
      ELSE [result |-> [video_name    |-> video_name,
                        output_folder |-> final_folder,
                        files         |-> st6.files,
                        metadata      |-> st6.metadata,
                        status        |-> "files_assembled"],
            fs     |-> st6.fs,
            trace  |-> <<"mkdir">> \o [i \in 1..Len(st6.files) |-> "write"]]

\* FileAssembler.assemble_final_output for a JSON object
assemble_final_output(video_data, files, o) ==
  LET video_name   == Remove(Remove(Remove(Get(video_data, "video_name", UnknownFolder),
                                           <<".", "m", "p", "4">>),
                                    <<".", "m", "o", "v">>),
                             <<".", "a", "v", "i">>)
      final_folder == Join(OUTPUT_DIR, video_name)
      made      == WriteFile(files, final_folder, File("dir", <<>>, EmptyDict))
      st0       == Progress(made, <<>>, EmptyDict, FALSE)
      st1       == CopyArtifact(st0, video_data, "processed_path", "video",
                                <<"f", "i", "n", "a", "l", "_">>, final_folder, o)
      st2       == CopyArtifact(st1, video_data, "srt_path", "subtitle", <<>>,
                                final_folder, o)
      st3       == CopyArtifact(st2, video_data, "transcript_path", "transcript",
                                <<>>, final_folder, o)
      captioned == "title" \in DOMAIN video_data /\ "description" \in DOMAIN video_data
      document  == [title       |-> Optional(video_data, "title"),
                    description |-> Optional(video_data, "description"),
                    tags        |-> Get(video_data, "tags", <<>>),
                    video_type  |-> Get(video_data, "video_type", Standard),
                    duration    |-> Get(video_data, "duration", 0)]
      st4       == WriteDocument(st3, captioned, "metadata",
                                 Join(final_folder, MetadataName),
                                 File("json", <<>>, document), o)
      st5       == WriteDocument(st4, captioned, "captions",
                                 Join(final_folder, CaptionsName),
                                 File("text", <<>>, document), o)
      summary   == [original_video    |-> Optional(video_data, "original_path"),
                    video_type        |-> Optional(video_data, "video_type"),
                    duration          |-> Optional(video_data, "duration"),
                    processing_steps  |-> "completed",
                    transcript_length |-> Len(Get(video_data, "transcript", <<>>)),
                    language          |-> Get(video_data, "language", "en")]
      st6       == WriteDocument(st5, TRUE, "summary",
                                 Join(final_folder, SummaryName),
                                 File("json", <<>>, summary), o)
  IN  IF o.mkdir = "fail"
      THEN [result |-> ErrorResult("cannot create folder"), fs |-> files,
            trace |-> <<"mkdir">>]
      ELSE IF st6.failed
      THEN [result |-> ErrorResult("cannot write file"), fs |-> st6.fs,
            trace |-> <<"mkdir">> \o [i \in 1..Len(st6.files) |-> "write"]]
      ELSE [result |-> [video_name    |-> video_name,
                        output_folder |-> final_folder,
                        files         |-> st6.files,
                        metadata      |-> st6.metadata,
                        status        |-> "files_assembled"],
            fs     |-> st6.fs,
            trace  |-> <<"mkdir">> \o [i \in 1..Len(st6.files) |-> "write"]]

\* assemble_files_endpoint (POST /assemble-files); a body that is no object
\* raises inside assemble_final_output, which returns the error dict
assemble_files_endpoint(request, files, o, post) ==
  IF ~request.isObject
  THEN Answer(500, ErrorResult("AttributeError"), files, <<>>, <<>>,
              <<ErrorResult("AttributeError")>>)
  ELSE LET w == assemble_final_output(request.data, files, o)
           s == send_to_next_step(w.result, post)
       IN  IF "error" \in DOMAIN w.result
           THEN Answer(500, w.result, w.fs, w.trace, <<>>, <<w.result>>)
           ELSE Answer(200, w.result, w.fs, w.trace \o s.trace, s.delivered,
                       <<w.result>>)

\* ------------------------------------------------------------------------
\* State
\* ------------------------------------------------------------------------

VARIABLES
  fs,        \* the files on disk: path -> content
  stage,     \* the work endpoint that handled the last request
  request,   \* the body of that request
  response,  \* the HTTP answer to it
  trace,     \* what the handler did for it, in order
  fsBefore,  \* the files when that request arrived
  delivered, \* the record its hand-off delivered downstream, if any
  work,      \* what the stage's unit of work returned for it, if it ran
  outcome,   \* what the stage's collaborators did during it
  served,    \* how many requests have been served
  tsArg,     \* the decimal num/den of the time last passed to format_timestamp
  tsSeconds, \* that time as the float the function receives
  tsOut,     \* what format_timestamp returned for it
  events,    \* the creation events the observer has queued, oldest first
  observer,  \* where the observer's one thread is in the handler
  outbox,    \* the records the watcher's POSTs delivered, in order
  jobs,      \* the Transcription requests in progress: where each one is
  handoffs,  \* per stage, the record it handed off in the pipeline run
  llmText,   \* the generation response handed to _parse_response
  llmParsed, \* what _parse_response returned for it
  boot       \* the Caption process: where its start is, and what it found

vars == <<fs, stage, request, response, trace, fsBefore, delivered, work,
          outcome, served,
          tsArg, tsSeconds, tsOut,
          events, observer, outbox, jobs, handoffs, llmText, llmParsed, boot>>

pipelineVars ==
  <<fs, stage, request, response, trace, fsBefore, delivered, work, outcome,
    served>>
tsVars == <<tsArg, tsSeconds, tsOut>>

\* the stages with a work endpoint
Stages == {"transform", "transcription", "caption", "assembly"}


\* the last exchange of the work endpoints
exchangeVars ==
  <<stage, request, response, trace, fsBefore, delivered, work, outcome, served>>

\* the variables the work endpoints and format_timestamp leave alone
restVars == <<events, observer, outbox, jobs, handoffs, llmText, llmParsed, boot>>

NoStamp == <<>>

\* the files at start: a video relocated earlier into the processing
\* directory, and in the watched directory a new video, notes and a folder
SourceFiles ==
  [p \in {ClipPath, Join(INPUT_DIR, UpperName), Join(INPUT_DIR, NotesName),
          Join(INPUT_DIR, Shorts)} |->
     IF p = Join(INPUT_DIR, Shorts) THEN File("dir", <<>>, EmptyDict)
     ELSE IF p = Join(INPUT_DIR, NotesName) THEN File("text", <<>>, EmptyDict)
     ELSE File("video", <<"r", "a", "w">>, [src |-> p])]

InitPipeline ==
  /\ fs = SourceFiles
  /\ stage = "none"
  /\ request = JsonNull
  /\ response = [code |-> 0, body |-> EmptyDict]
  /\ trace = <<>>
  /\ fsBefore = SourceFiles
  /\ delivered = <<>>
  /\ work = <<>>
  /\ outcome = EmptyDict
  /\ served = 0

InitStamp ==
  /\ tsArg = <<0, 1>>
  /\ tsSeconds = NearestDouble(0, 1)
  /\ tsOut = NoStamp

\* the observer thread idle with no event queued, no Transcription request
\* in progress, no record handed off, no generation response being parsed
InitRest ==
  /\ events = <<>>
  /\ observer = [pc |-> "idle", payload |-> <<>>]
  /\ outbox = <<>>
  /\ jobs = <<>>
  /\ handoffs = [s \in {"watcher"} \cup Stages |-> <<>>]
  /\ llmText = <<>>
  /\ llmParsed = <<>>
  /\ boot = [pc |-> "probe", probes |-> 0, waited |-> 0, model_loaded |-> FALSE,
            last |-> <<>>]

\* a handler ran: the exchange is recorded and the files change
Handled(s, req, o, ans) ==
  /\ served < MaxRequests
  /\ served' = served + 1
  /\ stage' = s
  /\ request' = req
  /\ response' = [code |-> ans.code, body |-> ans.body]
  /\ trace' = ans.trace
  /\ fsBefore' = fs
  /\ fs' = ans.fs
  /\ delivered' = ans.delivered
  /\ work' = ans.work
  /\ outcome' = o
  /\ UNCHANGED <<tsVars, restVars>>

\* what the workflow engine passes on: the record stage s has just delivered
Forwarded(s) ==
  IF stage = s THEN {JsonObject(delivered[i]) : i \in 1..Len(delivered)} ELSE {}

\* the events delivered to the watcher
WatchEvents ==
  {Event(Join(INPUT_DIR, Shorts), TRUE),
   Event(Join(INPUT_DIR, NotesName), FALSE),
   Event(Join(INPUT_DIR, UpperName), FALSE)}

WatchOutcomes == [rename : {"ok", "fail"}, post : PostOutcomes]

Watch ==
  \E event \in WatchEvents, o \in WatchOutcomes :
    /\ o.rename = "fail" => o.post = "exception"
    /\ ~(~event.is_directory /\ Exists(fs, event.src_path)
          /\ Lower(PathSuffix(event.src_path)) \in supported_formats)
         => o = [rename |-> "fail", post |-> "exception"]
    /\ Handled("watcher", JsonObject(event), o, on_created(event, fs, o))

\* probed durations, around the Shorts limit
Durations ==
  {45 * DurationScale, 60 * DurationScale - 1, 60 * DurationScale,
   60 * DurationScale + 1}

ProbeOutcomes ==
  {Probe("raise", 0), Probe("no_video", 0), Probe("no_duration", 0)}
    \cup {Probe("duration", d) : d \in Durations}

\* how one Transform request goes: the probe, the transcode ("ok" or
\* "fail") and the hand-off; a step that does not run has no outcome of its own
TransformOutcomes ==
  {o \in [probe : ProbeOutcomes, transcode : {"ok", "fail"}, post : PostOutcomes] :
     /\ ~get_video_duration(o.probe).ok => o.transcode = "fail"
     /\ o.transcode = "fail" => o.post = "exception"}

TransformRequests ==
  {JsonNull,
   JsonObject(EmptyDict),
   JsonObject([video_name |-> ClipName, timestamp |-> 1]),
   JsonObject([video_path |-> <<>>, video_name |-> ClipName, timestamp |-> 1]),
   JsonObject([video_path |-> ClipPath, video_name |-> ClipName, timestamp |-> 1]),
   JsonObject([video_path |-> GonePath, video_name |-> GoneName, timestamp |-> 3])}
    \cup Forwarded("watcher")

Transform ==
  \E req \in TransformRequests, o \in TransformOutcomes :
    /\ ~(req.isObject /\ ~Falsy(req.data, "video_path")
          /\ Exists(fs, req.data["video_path"]))
         => o = [probe |-> Probe("raise", 0), transcode |-> "fail",
                 post |-> "exception"]
    /\ Handled("transform", req, o,
               process_video_endpoint(req, fs, o.probe, o.transcode, o.post))

\* a record some earlier run left: it already carries Transcription's fields
StaleRecord ==
  [video_path |-> ClipPath, video_name |-> ClipName, status |-> "processed",
   transcript |-> <<"o", "l", "d">>, language |-> "fr",
   srt_path |-> Join(OUTPUT_DIR, <<"o", "l", "d", ".", "s", "r", "t">>)]

TranscriptionRequests ==
  {JsonNull,
   JsonObject(EmptyDict),
   JsonObject([video_path |-> <<>>, processed_path |-> <<>>]),
   JsonObject([video_path |-> ClipPath, video_name |-> ClipName]),
   JsonObject([video_path |-> GonePath, video_name |-> GoneName]),
   JsonObject(StaleRecord)}
    \cup Forwarded("transform")

Transcription ==
  \E req \in TranscriptionRequests, o \in TranscriptionOutcomes :
    /\ ~(req.isObject /\ Exists(fs, TargetVideoPath(req.data)))
         => o = [extract |-> "fail", transcribe |-> [raise |-> TRUE, result |-> EmptyDict],
                 srt |-> "fail", transcript |-> "fail", post |-> "exception"]
    /\ Handled("transcription", req, o,
               generate_subtitles_endpoint(req, fs, o, o.post))

OllamaOutcomes ==
  {Ollama(TRUE, <<>>), Ollama(FALSE, <<>>), Ollama(FALSE, ResponseBlank),
   Ollama(FALSE, ResponseFull), Ollama(FALSE, ResponseChat),
   Ollama(FALSE, ResponseNoTitle)}

\* how one Caption request goes: the generation call and the hand-off
CaptionOutcomes == [ollama : OllamaOutcomes, post : PostOutcomes]

CaptionRequests ==
  {JsonNull,
   JsonObject(EmptyDict),
   JsonObject([transcript |-> <<>>, video_name |-> ClipName]),
   JsonObject([transcript |-> HelloWorld]),
   JsonObject([transcript |-> HelloWorld, video_name |-> ClipName,
               video_type |-> Shorts, duration |-> 45 * DurationScale])}
    \cup Forwarded("transcription")

Caption ==
  \E req \in CaptionRequests, o \in CaptionOutcomes :
    /\ ~(req.isObject /\ ~Falsy(req.data, "transcript"))
         => o = [ollama |-> Ollama(TRUE, <<>>), post |-> "exception"]
    /\ Handled("caption", req, o,
               generate_captions_endpoint(req, fs, o.ollama, o.post))

\* how one assembly goes: the folder creation, and the file operation that
\* raises ("none": no operation raises)
AssemblyOutcomes ==
  {o \in [mkdir : {"ok", "fail"},
          failing : {"none", "video", "subtitle", "transcript", "metadata",
                     "captions", "summary"},
          post : PostOutcomes] :
     /\ o.mkdir = "fail" => o.failing = "summary"
     /\ o.failing # "none" => o.post = "exception"}

AssemblyRequests ==
  {JsonNull,
   JsonObject(EmptyDict),
   JsonObject([video_name |-> ClipName]),
   JsonObject([video_name |-> ClipName, video_path |-> ClipPath, timestamp |-> 1,
               processed_path |-> Join(OUTPUT_DIR, <<"n", "o", "n", "e">>),
               title |-> HelloWorld, description |-> HelloWorld]),
   JsonObject([video_name |-> ClipName, processed_path |-> ClipPath,
               srt_path |-> Join(INPUT_DIR, NotesName),
               title |-> HelloWorld, description |-> HelloWorld]),
   JsonObject([video_name |-> ClipName,
               srt_path |-> Join(Join(OUTPUT_DIR, <<"c", "l", "i", "p">>),
                                 SummaryName)])}
    \cup Forwarded("caption")

Assembly ==
  \E req \in AssemblyRequests, o \in AssemblyOutcomes :
    /\ ~req.isObject
         => o = [mkdir |-> "fail", failing |-> "summary", post |-> "exception"]
    /\ Handled("assembly", req, o, assemble_files_endpoint(req, fs, o, o.post))

Init == InitPipeline /\ InitStamp /\ InitRest

Next == Watch \/ Transform \/ Transcription \/ Caption \/ Assembly

Spec == Init /\ [][Next]_vars

\* ------------------------------------------------------------------------
\* Properties of the work endpoints
\* ------------------------------------------------------------------------

\* C1: a stage that answers with success returns and forwards a record that
\* still has every key of the incoming record, and a key the stage does not
\* own keeps its incoming value.
JobRecordKeysKept ==
  (stage \in Stages /\ response.code = 200) =>
    LET owned ==
          CASE stage = "transform" ->
                 {"original_path", "processed_path", "duration", "video_type",
                  "output_filename", "status", "error"}
            [] stage = "transcription" ->
                 {"srt_path", "transcript_path", "transcript", "language",
                  "status", "error"}
            [] stage = "caption" ->
                 {"title", "description", "tags", "status", "error"}
            [] OTHER ->
                 {"output_folder", "files", "metadata", "status", "error"}
        kept(rec) ==
          \A k \in DOMAIN request.data :
            k \in DOMAIN rec /\ (k \notin owned => rec[k] = request.data[k])
    IN  kept(response.body) /\ \A i \in 1..Len(delivered) : kept(delivered[i])

\* C2: in Transform, Transcription and Assembly, a unit of work that ends
\* with status=error makes no hand-off and is answered 500 with the error
\* message; a hand-off is made only when the work produced no error.
ErrorStopsPipeline ==
  stage \in {"transform", "transcription", "assembly"} =>
    /\ \A i \in 1..Len(work) :
         work[i]["status"] = "error" =>
           /\ \A j \in 1..Len(trace) : trace[j] # "post"
           /\ delivered = <<>>
           /\ response.code = 500
           /\ "error" \in DOMAIN response.body
           /\ response.body["error"] = work[i]["error"]
    /\ (\E j \in 1..Len(trace) : trace[j] = "post") =>
         work # <<>> /\ "error" \notin DOMAIN work[1]
            /\ work[1]["status"] # "error"

\* a transcription whose speech-to-text call raised
ErrorStopsPipelineWitness ==
  /\ stage = "transcription"
  /\ work # <<>>
  /\ work[1]["status"] = "error"
  /\ \E j \in 1..Len(trace) : trace[j] = "transcribe"
  /\ response.code = 500

\* C3: once generate_subtitles has returned, by whatever exit, the
\* temp_audio.wav it created is gone from the output directory.
TempAudioReleased ==
  (stage = "transcription" /\ Len(trace) >= 2
     /\ trace[1] = "extract" /\ trace[2] = "write") =>
    ~Exists(fs, Join(OUTPUT_DIR, TempAudioName))

\* C4: whatever the generation call does, generate_captions returns title,
\* description and tags with status captions_generated, never error.
CaptionsNeverFail ==
  (stage = "caption" /\ request.isObject /\ ~Falsy(request.data, "transcript")) =>
    /\ work # <<>>
    /\ {"title", "description", "tags"} \subseteq DOMAIN work[1]
    /\ "error" \notin DOMAIN work[1]
    /\ work[1]["status"] = "captions_generated"
    /\ response.code = 200

\* a caption request whose generation call raised
CaptionsNeverFailWitness ==
  /\ stage = "caption"
  /\ request.isObject /\ ~Falsy(request.data, "transcript")
  /\ outcome.ollama.raise
  /\ response.code = 200

\* C5: a successful process_video emits shorts exactly when the probed
\* duration is at most 60 s (60 s itself is shorts), standard otherwise, and
\* the profile it ran is the one of the emitted type.
ShortsIffAtMostSixty ==
  (stage = "transform" /\ response.code = 200) =>
    LET r   == work[1]
        ran(e) == \E j \in 1..Len(trace) : trace[j] = e
    IN  /\ r["duration"] = get_video_duration(outcome.probe).value
        /\ r["video_type"] = Shorts <=> r["duration"] <= 60 * DurationScale
        /\ r["video_type"] # Shorts => r["video_type"] = Standard
        /\ ran("process_shorts") <=> r["video_type"] = Shorts
        /\ ran("process_standard") <=> r["video_type"] = Standard

\* a video of exactly 60 s was transformed
ShortsIffAtMostSixtyWitness ==
  /\ stage = "transform"
  /\ response.code = 200
  /\ work[1]["duration"] = 60 * DurationScale

\* C6: a successful Transcription returns and forwards status
\* subtitles_generated and the srt_path, transcript_path, transcript and
\* language this request produced, whatever the incoming record carried.
TranscriptionFieldsEmitted ==
  (stage = "transcription" /\ response.code = 200) =>
    LET emitted(rec) ==
          /\ rec["status"] = "subtitles_generated"
          /\ \A k \in {"srt_path", "transcript_path", "transcript", "language"} :
               rec[k] = work[1][k]
    IN  emitted(response.body) /\ \A i \in 1..Len(delivered) : emitted(delivered[i])

\* C7: in every stage the hand-off is attempted once, after the stage's own
\* artifacts were written; a hand-off that fails is not retried, changes
\* neither the answer (200 with the enriched record) nor the files, and the
\* artifacts the stage wrote are on disk.
HandOffOnceAfterWork ==
  LET posts     == Cardinality({j \in 1..Len(trace) : trace[j] = "post"})
      succeeded == \/ stage \in Stages /\ response.code = 200
                   \/ stage = "watcher" /\ work # <<>>
      onDisk    ==
        CASE stage = "watcher" -> Exists(fs, work[1]["video_path"])
          [] stage = "transform" -> Exists(fs, work[1]["processed_path"])
          [] stage = "transcription" ->
               /\ Exists(fs, work[1]["srt_path"])
               /\ Exists(fs, work[1]["transcript_path"])
          [] stage = "assembly" ->
               \A i \in 1..Len(work[1]["files"]) :
                 Exists(fs, work[1]["files"][i].path)
          [] OTHER -> TRUE
      delivering ==
        CASE stage = "watcher" -> on_created(request.data, fsBefore,
                                    [outcome EXCEPT !.post = "200"])
          [] stage = "transform" ->
               process_video_endpoint(request, fsBefore, outcome.probe,
                                      outcome.transcode, "200")
          [] stage = "transcription" ->
               generate_subtitles_endpoint(request, fsBefore, outcome, "200")
          [] stage = "caption" ->
               generate_captions_endpoint(request, fsBefore, outcome.ollama, "200")
          [] OTHER -> assemble_files_endpoint(request, fsBefore, outcome, "200")
  IN  stage # "none" =>
        /\ posts <= 1
        /\ succeeded <=> posts = 1
        /\ posts = 1 => trace[Len(trace)] = "post"
        /\ (posts = 1 /\ outcome.post = "exception") =>
             /\ delivered = <<>>
             /\ stage \in Stages => response.code = 200
             /\ response.code = delivering.code
             /\ response.body = delivering.body
             /\ fs = delivering.fs
             /\ onDisk

\* a transcription that wrote its files and whose hand-off then raised
HandOffOnceAfterWorkWitness ==
  /\ stage = "transcription"
  /\ response.code = 200
  /\ outcome.post = "exception"
  /\ \E j \in 1..Len(trace) : trace[j] = "post"

\* C8: a request that lacks the stage's required input, or carries no JSON
\* object, is answered 400 and has no side effect: no file is touched and
\* no hand-off is made.
MissingInputIs400 ==
  LET lacks ==
        CASE stage = "transform" ->
               ~request.isObject \/ Falsy(request.data, "video_path")
          [] stage = "transcription" ->
               \/ ~request.isObject
               \/ Falsy(request.data, "video_path")
                    /\ Falsy(request.data, "processed_path")
          [] stage = "caption" ->
               ~request.isObject \/ Falsy(request.data, "transcript")
          [] stage = "assembly" -> ~request.isObject
          [] OTHER -> FALSE
  IN  lacks =>
        /\ response.code = 400
        /\ fs = fsBefore
        /\ delivered = <<>>
        /\ \A j \in 1..Len(trace) : trace[j] # "post"

\* C9: when the generation gave no line beginning with TITLE: (or failed, or
\* gave empty text), the Caption stage emits exactly the fallback title
\* "Great <video_type> - <video_name>", the fallback description and the
\* fallback tags.
FallbackWhenNoTitle ==
  LET video_type == Get(request.data, "video_type", Standard)
      video_name == Get(request.data, "video_name", Unknown)
      lines      == Split(outcome.ollama.text, "\n")
      noTitle    == \/ outcome.ollama.raise
                    \/ \A i \in 1..Len(lines) :
                         ~StartsWith(Strip(lines[i]), TitlePrefix)
  IN  (stage = "caption" /\ work # <<>> /\ noTitle) =>
        /\ work[1]["title"] =
             <<"G", "r", "e", "a", "t", " ">> \o video_type \o <<" ", "-", " ">>
               \o video_name
        /\ work[1]["description"] =
             <<"W", "a", "t", "c", "h", " ", "t", "h", "i", "s", " ", "a",
               "m", "a", "z", "i", "n", "g", " ">>
               \o video_type \o <<" ", "v", "i", "d", "e", "o", " ", "a", "b",
                                "o", "u", "t", " ">>
               \o video_name
               \o <<".", " ", "D", "o", "n", "'", "t", " ", "f", "o", "r",
                    "g", "e", "t", " ", "t", "o", " ", "l", "i", "k", "e",
                    " ", "a", "n", "d", " ", "s", "u", "b", "s", "c", "r",
                    "i", "b", "e", "!">>
        /\ work[1]["tags"] =
             <<video_type, video_name, <<"v", "i", "d", "e", "o">>,
               <<"c", "o", "n", "t", "e", "n", "t">>,
               <<"m", "u", "s", "t", " ", "w", "a", "t", "c", "h">>>>

\* C11: the Watcher emits a job record for a file only after the file was
\* relocated into the processing directory under the same filename, and the
\* record's video_path is the new location; for a directory event, a file
\* whose extension is not a supported one, or a relocation that fails, no file
\* is moved, no record is emitted and nothing is retried.
RelocatedBeforeRecord ==
  LET event   == request.data
      src     == event.src_path
      dest    == Join(PROCESSING_DIR, PathName(src))
      posted  == \E j \in 1..Len(trace) : trace[j] = "post"
      renames == Cardinality({j \in 1..Len(trace) : trace[j] = "rename"})
      dropped == \/ event.is_directory
                 \/ Lower(PathSuffix(src)) \notin
                      {<<".", "m", "p", "4">>, <<".", "a", "v", "i">>,
                       <<".", "m", "o", "v">>, <<".", "m", "k", "v">>,
                       <<".", "w", "m", "v">>, <<".", "f", "l", "v">>,
                       <<".", "w", "e", "b", "m">>}
                 \/ ~Exists(fsBefore, src)
                 \/ outcome.rename = "fail"
  IN  stage = "watcher" =>
        /\ (posted \/ delivered # <<>>) =>
             /\ trace = <<"rename", "write", "post">>
             /\ ~Exists(fs, src)
             /\ Exists(fs, dest)
             /\ fs[dest] = fsBefore[src]
             /\ PathName(dest) = PathName(src)
             /\ work[1]["video_path"] = dest
             /\ work[1]["video_name"] = PathName(src)
        /\ delivered # <<>> => delivered[1] = work[1]
        /\ dropped =>
             /\ fs = fsBefore
             /\ delivered = <<>>
             /\ ~posted
             /\ renames <= 1

\* a new video was relocated and its record delivered
RelocatedBeforeRecordWitness ==
  /\ stage = "watcher"
  /\ delivered # <<>>
  /\ ~Exists(fs, request.data.src_path)

\* C14: whenever the probe cannot determine the duration (it raises, finds no
\* video stream, or the video stream carries no duration value),
\* process_video performs no transcode and returns status=error with
\* error="duration unavailable".
DurationUnavailableIsError ==
  LET probed      == trace # <<>> /\ trace[1] = "probe"
      unavailable == outcome.probe.kind \in {"raise", "no_video", "no_duration"}
  IN  (stage = "transform" /\ probed /\ unavailable) =>
        /\ \A j \in 1..Len(trace) :
             trace[j] \notin {"process_shorts", "process_standard", "write"}
        /\ fs = fsBefore
        /\ work[1]["status"] = "error"
        /\ "error" \in DOMAIN work[1]
        /\ work[1]["error"] = "duration unavailable"

\* C15: given a job record in which only video_name is set,
\* assemble_final_output returns status=files_assembled, creates the output
\* folder, writes the processing-summary document into it, and returns a
\* files list with exactly one entry, of type summary.
OnlyVideoNameAssembles ==
  LET folder == Join(OUTPUT_DIR, <<"c", "l", "i", "p">>)
  IN  (/\ stage = "assembly"
       /\ request = JsonObject([video_name |-> ClipName])
       /\ outcome.mkdir = "ok"
       /\ outcome.failing = "none") =>
        /\ work[1]["status"] = "files_assembled"
        /\ Exists(fs, folder) /\ fs[folder].kind = "dir"
        /\ Exists(fs, Join(folder, SummaryName))
        /\ fs[Join(folder, SummaryName)].kind = "json"
        /\ Len(work[1]["files"]) = 1
        /\ work[1]["files"][1].type = "summary"
        /\ work[1]["files"][1].path = Join(folder, SummaryName)
        /\ \A p \in DOMAIN fs :
             p \in DOMAIN fsBefore \/ p \in {folder, Join(folder, SummaryName)}

\* an assembly of the record {video_name: clip.mp4} in which no file
\* operation failed
OnlyVideoNameAssemblesWitness ==
  /\ stage = "assembly"
  /\ request = JsonObject([video_name |-> ClipName])
  /\ outcome.mkdir = "ok"
  /\ outcome.failing = "none"
  /\ response.code = 200

\* C16: for every job record, when the source artifact files are in the same
\* state at both calls, running assemble_final_output twice with that record
\* leaves the output folder (and every other file) as one run left it, and
\* both calls return the same files list.
AssembleTwiceSame ==
  [][ LET data    == request.data
          sources == {data[k] : k \in {"processed_path", "srt_path", "transcript_path"}
                                        \cap DOMAIN data}
      IN  (/\ stage = "assembly" /\ stage' = "assembly"
           /\ request.isObject /\ request' = request
           /\ outcome.mkdir = "ok" /\ outcome.failing = "none"
           /\ outcome'.mkdir = "ok" /\ outcome'.failing = "none"
           /\ \A p \in sources :
                /\ Exists(fsBefore, p) <=> Exists(fs, p)
                /\ Exists(fs, p) => fs[p] = fsBefore[p]) =>
            /\ fs' = fs
            /\ work' = work
            /\ response'.code = response.code ]_vars

\* a second assembly of a record with a processed video: nothing on disk
\* changed, and the files list names the copied video
AssembleTwiceSameWitness ==
  /\ stage = "assembly"
  /\ response.code = 200
  /\ served = 2
  /\ fs = fsBefore
  /\ \E i \in 1..Len(work[1]["files"]) : work[1]["files"][i].type = "video"

\* C22: after a successful assemble_final_output the files list has exactly
\* one entry for each file the call copied or wrote and no other entry, in
\* the order video, subtitle, transcript, metadata, captions, summary; every
\* listed path exists in the output folder; an artifact field whose source
\* file does not exist contributes no entry and does not make the stage fail.
ManifestMatchesFiles ==
  LET data      == request.data
      order     == <<"video", "subtitle", "transcript", "metadata", "captions",
                     "summary">>
      field     == [video |-> "processed_path", subtitle |-> "srt_path",
                    transcript |-> "transcript_path"]
      copied(t) == field[t] \in DOMAIN data /\ Exists(fsBefore, data[field[t]])
      captioned == "title" \in DOMAIN data /\ "description" \in DOMAIN data
      due(t)    == IF t \in DOMAIN field THEN copied(t)
                   ELSE IF t = "summary" THEN TRUE ELSE captioned
      expected  == SelectSeq(order, due)
      files     == work[1]["files"]
      folder    == work[1]["output_folder"]
  IN  (stage = "assembly" /\ request.isObject) =>
        /\ work[1]["status"] = "files_assembled" =>
             /\ [i \in 1..Len(files) |-> files[i].type] = expected
             /\ \A i \in 1..Len(files) :
                  /\ Exists(fs, files[i].path)
                  /\ files[i].path = Join(folder, files[i].name)
                  /\ \A k \in 1..Len(files[i].name) : files[i].name[k] # "/"
             /\ \A p \in DOMAIN fs :
                  (p \notin DOMAIN fsBefore \/ fs[p] # fsBefore[p]) =>
                    p = folder \/ \E i \in 1..Len(files) : files[i].path = p
        /\ (/\ outcome.mkdir = "ok"
            /\ outcome.failing \notin {"metadata", "captions", "summary"}
            /\ \A t \in DOMAIN field : ~copied(t)) =>
             work[1]["status"] = "files_assembled"

\* an assembly that succeeded for a record whose processed_path names a file
\* that does not exist: the files list holds the three written documents
ManifestMatchesFilesWitness ==
  /\ stage = "assembly"
  /\ request.isObject
  /\ "processed_path" \in DOMAIN request.data
  /\ ~Exists(fsBefore, request.data["processed_path"])
  /\ response.code = 200
  /\ Len(work[1]["files"]) = 3

\* ------------------------------------------------------------------------
\* The output folder's name: one assembly of a record that names a video
\* ------------------------------------------------------------------------

RECURSIVE VideoNames(_)
\* the values of video_name: up to n parts, each "a", ".mp4", ".mov", ".avi"
\* or ".mkv"
VideoNames(n) ==
  IF n = 0 THEN {<<>>}
  ELSE LET shorter == VideoNames(n - 1)
       IN  shorter \cup {name \o part :
                           name \in shorter,
                           part \in {<<"a">>, <<".", "m", "p", "4">>,
                                     <<".", "m", "o", "v">>, <<".", "a", "v", "i">>,
                                     <<".", "m", "k", "v">>}}

\* POST /assemble-files with a record that holds video_name only; the name is
\* one of VideoNames(MaxParts) or "holiday.movie.mp4"
AssembleNamed ==
  \E name \in (VideoNames(MaxParts) \ {<<>>})
                 \cup {<<"h", "o", "l", "i", "d", "a", "y", ".", "m", "o", "v", "i", "e", ".", "m", "p", "4">>},
     post \in PostOutcomes :
    /\ stage = "none"
    /\ LET req == JsonObject([video_name |-> name])
           o   == [mkdir |-> "ok", failing |-> "none", post |-> post]
       IN  Handled("assembly", req, o, assemble_files_endpoint(req, fs, o, post))

SpecFolder == Init /\ [][AssembleNamed]_vars

\* C23: for every video_name, the output folder name is video_name with its
\* trailing known extension (.mp4, .mov or .avi) removed and every other
\* character kept: a name in which one of these strings occurs before the end
\* (for example holiday.movie.mp4) loses only the final extension.
FolderKeepsName ==
  LET name     == request.data["video_name"]
      known    == {<<".", "m", "p", "4">>, <<".", "m", "o", "v">>,
                   <<".", "a", "v", "i">>}
      trailing == Len(name) >= 4 /\ SubSeq(name, Len(name) - 3, Len(name)) \in known
      expected == IF trailing THEN SubSeq(name, 1, Len(name) - 4) ELSE name
  IN  (/\ stage = "assembly"
       /\ request.isObject
       /\ "video_name" \in DOMAIN request.data
       /\ work[1]["status"] = "files_assembled") =>
        /\ work[1]["video_name"] = expected
        /\ work[1]["output_folder"] = Join(OUTPUT_DIR, expected)
        /\ Exists(fs, Join(OUTPUT_DIR, expected))

\* ------------------------------------------------------------------------
\* SRT timestamps on their own
\* ------------------------------------------------------------------------

\* the times formatted: every millisecond up to MaxMillis, the boundaries of
\* minute and hour, and the documented example 3725.4567
TimeArgs ==
  {<<n, 1000>> : n \in 0..MaxMillis}
    \cup {<<n, 1000>> : n \in {4100, 59999, 60000, 3599999, 3600000}}
    \cup {<<37254567, 10000>>}

InitFmt ==
  /\ InitPipeline
  /\ tsArg \in TimeArgs
  /\ tsSeconds = NearestDouble(tsArg[1], tsArg[2])
  /\ tsOut = NoStamp
  /\ InitRest

FormatTimestamp ==
  /\ tsOut = NoStamp
  /\ tsOut' = format_timestamp(tsSeconds)
  /\ UNCHANGED <<tsArg, tsSeconds>>
  /\ UNCHANGED <<pipelineVars, restVars>>

NextFmt == FormatTimestamp

SpecFmt == InitFmt /\ [][NextFmt]_vars

\* C10: for every segment time t >= 0, format_timestamp(t) is HH:MM:SS,mmm
\* with HH = floor(t/3600), MM = floor((t mod 3600)/60), SS = floor(t mod 60),
\* zero-padded to 2 digits, and mmm = the fractional second times 1000,
\* truncated and never rounded, zero-padded to 3 digits; format(3725.4567) =
\* "01:02:05,456" and format(0) = "00:00:00,000".  t is the value of the
\* float handed to the function.
TimestampTruncates ==
  LET whole  == tsSeconds.int
      millis == IntPart(ExactMul(tsSeconds.frac, 1000))
  IN  tsOut # NoStamp =>
        /\ tsOut = ZeroPad(Digits(whole \div 3600), 2) \o <<":">>
                     \o ZeroPad(Digits((whole % 3600) \div 60), 2) \o <<":">>
                     \o ZeroPad(Digits(whole % 60), 2) \o <<",">>
                     \o ZeroPad(Digits(millis), 3)
        /\ tsArg = <<37254567, 10000>> =>
             tsOut = <<"0", "1", ":", "0", "2", ":", "0", "5", ",", "4", "5", "6">>
        /\ tsArg = <<0, 1000>> =>
             tsOut = <<"0", "0", ":", "0", "0", ":", "0", "0", ",", "0", "0", "0">>

\* ------------------------------------------------------------------------
\* The watcher's observer: main() starts one Observer with one handler, and
\* the observer's thread calls on_created for one queued event at a time
\* ------------------------------------------------------------------------

\* a video (a.mp4, b.mov or c.webm) is created in the watched directory: the
\* observer queues the event
Create ==
  \E f \in {Join(INPUT_DIR, n) : n \in {<<"a", ".", "m", "p", "4">>, <<"b", ".", "m", "o", "v">>,
                                       <<"c", ".", "w", "e", "b", "m">>}} :
    /\ ~Exists(fs, f)
    /\ ~Exists(fs, Join(PROCESSING_DIR, PathName(f)))
    /\ \A i \in 1..Len(events) : events[i].src_path # f
    /\ fs' = WriteFile(fs, f, File("video", <<"r", "a", "w">>, [src |-> f]))
    /\ events' = Append(events, Event(f, FALSE))
    /\ UNCHANGED <<observer, outbox>>
    /\ UNCHANGED <<exchangeVars, tsVars, jobs, handoffs, llmText, llmParsed, boot>>

\* the observer thread takes the oldest event and runs on_created up to the
\* call of requests.post
Dispatch ==
  /\ observer.pc = "idle"
  /\ events # <<>>
  /\ \E r \in {"ok", "fail"} :
       LET w == on_created(Head(events), fs, [rename |-> r, post |-> "exception"])
       IN  /\ fs' = w.fs
           /\ observer' = IF w.work = <<>> THEN [pc |-> "idle", payload |-> <<>>]
                          ELSE [pc |-> "post", payload |-> w.work]
  /\ events' = Tail(events)
  /\ UNCHANGED outbox
  /\ UNCHANGED <<exchangeVars, tsVars, jobs, handoffs, llmText, llmParsed, boot>>

\* requests.post returns or raises (at the latest after its timeout), and
\* on_created returns to the observer thread
PostReturns ==
  /\ observer.pc = "post"
  /\ \E p \in PostOutcomes :
       outbox' = outbox \o send_to_next_step(observer.payload[1], p).delivered
  /\ observer' = [pc |-> "idle", payload |-> <<>>]
  /\ UNCHANGED <<fs, events>>
  /\ UNCHANGED <<exchangeVars, tsVars, jobs, handoffs, llmText, llmParsed, boot>>

NextWatch == Create \/ Dispatch \/ PostReturns

SpecWatch == Init /\ [][NextWatch]_vars

\* C12: when several supported videos are created in the watched directory,
\* the relocation of one never has to wait for another file's relocation or
\* for another file's pending hand-off POST: no video's creation event stays
\* queued while the handler is inside the POST for another file.
RelocationNeverWaits ==
  \A i \in 1..Len(events) :
    Exists(fs, events[i].src_path) => observer.pc # "post"

\* ------------------------------------------------------------------------
\* Transcription requests served at the same time: app.run serves each
\* request in a thread of its own, and the steps of generate_subtitles of
\* two requests interleave
\* ------------------------------------------------------------------------

\* what the speech-to-text engine returns for the audio extracted from a
\* video: a function of that audio, here the video's name as the words spoken
Heard(src) ==
  [text     |-> PathName(src),
   segments |-> <<Segment(NearestDouble(0, 1), NearestDouble(4100, 1000),
                          PathName(src))>>,
   language |-> "en"]

\* output_dir / "temp_audio.wav"
AudioPath == Join(OUTPUT_DIR, TempAudioName)

\* output_dir / f"{video_path.stem}.srt"
SrtPath(video_path) ==
  Join(OUTPUT_DIR, PathStem(video_path) \o <<".", "s", "r", "t">>)

\* output_dir / f"{video_path.stem}_transcript.txt"
TranscriptPath(video_path) ==
  Join(OUTPUT_DIR, PathStem(video_path)
         \o <<"_", "t", "r", "a", "n", "s", "c", "r", "i", "p", "t", ".", "t", "x", "t">>)

\* two requests, for /app/processing/clip.mp4 and /app/input/CLIP.MP4; of
\* each: the step it is about to take, its request body, the source of the
\* audio its transcription was given, what generate_subtitles returned, the
\* answer, and the record handed off
InitConcurrent ==
  /\ InitPipeline /\ InitStamp
  /\ events = <<>>
  /\ observer = [pc |-> "idle", payload |-> <<>>]
  /\ outbox = <<>>
  /\ handoffs = [s \in {"watcher"} \cup Stages |-> <<>>]
  /\ llmText = <<>>
  /\ llmParsed = <<>>
  /\ boot = [pc |-> "probe", probes |-> 0, waited |-> 0, model_loaded |-> FALSE,
            last |-> <<>>]
  /\ jobs = [j \in 1..2 |->
               [pc |-> "extract",
                data |-> [video_path |->
                            IF j = 1 THEN ClipPath ELSE Join(INPUT_DIR, UpperName)],
                heard |-> <<>>, result |-> <<>>, answer |-> <<>>, handed |-> <<>>]]

\* the step of job j changes the files and the job
Step(j, files, job) ==
  /\ fs' = files
  /\ jobs' = [jobs EXCEPT ![j] = job]
  /\ UNCHANGED <<exchangeVars, tsVars, events, observer, outbox, handoffs,
                 llmText, llmParsed, boot>>

\* extract_audio: ffmpeg writes output_dir/temp_audio.wav, overwriting it
ExtractAudio(j) ==
  LET job == jobs[j]
      video_path == TargetVideoPath(job.data)
  IN  /\ job.pc = "extract"
      /\ Step(j, WriteFile(fs, AudioPath, File("audio", <<>>, [src |-> video_path])),
              [job EXCEPT !.pc = "transcribe"])

\* model.transcribe(str(audio_path)): reads the file that is there now, and
\* raises when there is none, which ends generate_subtitles in its except
\* branch
Transcribe(j) ==
  LET job == jobs[j]
  IN  /\ job.pc = "transcribe"
      /\ IF Exists(fs, AudioPath)
         THEN Step(j, fs, [job EXCEPT !.pc = "srt",
                                      !.heard = <<fs[AudioPath].data.src>>])
         ELSE Step(j, fs, [job EXCEPT !.pc = "respond",
                                      !.result = <<ErrorResult("No such file")>>])

\* create_srt_file
WriteSrt(j) ==
  LET job == jobs[j]
      video_path == TargetVideoPath(job.data)
  IN  /\ job.pc = "srt"
      /\ Step(j, WriteFile(fs, SrtPath(video_path),
                   File("srt", create_srt_file(Heard(job.heard[1])["segments"]),
                        EmptyDict)),
              [job EXCEPT !.pc = "transcript"])

\* create_transcript_file
WriteTranscript(j) ==
  LET job == jobs[j]
      video_path == TargetVideoPath(job.data)
  IN  /\ job.pc = "transcript"
      /\ Step(j, WriteFile(fs, TranscriptPath(video_path),
                   File("transcript", Heard(job.heard[1])["text"], EmptyDict)),
              [job EXCEPT !.pc = "unlink"])

\* audio_path.unlink(missing_ok=True) and the return of the result
UnlinkAudio(j) ==
  LET job == jobs[j]
      video_path == TargetVideoPath(job.data)
      result == Heard(job.heard[1])
  IN  /\ job.pc = "unlink"
      /\ Step(j, Unlink(fs, AudioPath),
              [job EXCEPT !.pc = "respond",
                          !.result = <<[srt_path        |-> SrtPath(video_path),
                                        transcript_path |-> TranscriptPath(video_path),
                                        transcript      |-> result["text"],
                                        language        |-> Get(result, "language", "en"),
                                        status          |-> "subtitles_generated"]>>])

\* the endpoint after generate_subtitles returned: 500 on an error, else
\* the merge with the incoming data, the hand-off and the answer
Respond(j) ==
  LET job == jobs[j]
      result == job.result[1]
      merged == Update(result, job.data)
  IN  /\ job.pc = "respond"
      /\ \E post \in PostOutcomes :
           IF "error" \in DOMAIN result
           THEN /\ post = "exception"
                /\ Step(j, fs, [job EXCEPT !.pc = "done",
                                           !.answer = <<[code |-> 500, body |-> result]>>])
           ELSE Step(j, fs, [job EXCEPT !.pc = "done",
                               !.answer = <<[code |-> 200, body |-> merged]>>,
                               !.handed = send_to_next_step(merged, post).delivered])

NextConcurrent ==
  \E j \in DOMAIN jobs :
    \/ ExtractAudio(j)
    \/ Transcribe(j)
    \/ WriteSrt(j)
    \/ WriteTranscript(j)
    \/ UnlinkAudio(j)
    \/ Respond(j)

SpecConcurrent == InitConcurrent /\ [][NextConcurrent]_vars

\* C13: two Transcription requests for different videos that run at the same
\* time are independent: each transcribes the audio extracted from its own
\* video, neither overwrites or deletes the temporary audio file the other is
\* still using, and each request's result is the one it produces when run
\* alone.
ConcurrentJobsIndependent ==
  \A j \in 1..Len(jobs) :
    LET job   == jobs[j]
        video == TargetVideoPath(job.data)
        alone == generate_subtitles(video, OUTPUT_DIR, SourceFiles,
                   [extract |-> "ok",
                    transcribe |-> [raise |-> FALSE, result |-> Heard(video)],
                    srt |-> "ok", transcript |-> "ok", post |-> "200"])
    IN  /\ job.pc = "transcribe" =>
             Exists(fs, AudioPath) /\ fs[AudioPath].data.src = video
        /\ job.heard # <<>> => job.heard[1] = video
        /\ job.result # <<>> => job.result[1] = alone.result
        /\ job.pc = "done" =>
             /\ fs[SrtPath(video)] = alone.fs[SrtPath(video)]
             /\ fs[TranscriptPath(video)] = alone.fs[TranscriptPath(video)]

\* ------------------------------------------------------------------------
\* One pipeline run: a video appears in the watched directory, and every
\* stage is called with the record the stage before it handed off
\* ------------------------------------------------------------------------

\* at the start of the run the new video clip.mp4 is in the watched directory
InitRun ==
  /\ fs = [p \in {Join(INPUT_DIR, ClipName)} |->
             File("video", <<"r", "a", "w">>, [src |-> p])]
  /\ stage = "none"
  /\ request = JsonNull
  /\ response = [code |-> 0, body |-> EmptyDict]
  /\ trace = <<>>
  /\ fsBefore = fs
  /\ delivered = <<>>
  /\ work = <<>>
  /\ outcome = EmptyDict
  /\ served = 0
  /\ InitStamp
  /\ InitRest

\* stage s handled the record: the exchange is recorded, the files change,
\* and what it handed off is kept
Passed(s, req, o, ans) ==
  /\ served' = served + 1
  /\ stage' = s
  /\ request' = req
  /\ response' = [code |-> ans.code, body |-> ans.body]
  /\ trace' = ans.trace
  /\ fsBefore' = fs
  /\ fs' = ans.fs
  /\ delivered' = ans.delivered
  /\ work' = ans.work
  /\ outcome' = o
  /\ handoffs' = [handoffs EXCEPT ![s] = ans.delivered]
  /\ UNCHANGED <<tsVars, events, observer, outbox, jobs, llmText, llmParsed, boot>>

RunWatch ==
  /\ stage = "none"
  /\ \E o \in WatchOutcomes :
       LET event == Event(Join(INPUT_DIR, ClipName), FALSE)
       IN  /\ o.rename = "fail" => o.post = "exception"
           /\ Passed("watcher", JsonObject(event), o, on_created(event, fs, o))

RunTransform ==
  \E req \in Forwarded("watcher"), o \in TransformOutcomes :
    Passed("transform", req, o,
           process_video_endpoint(req, fs, o.probe, o.transcode, o.post))

\* the speech-to-text call of the run may also return the words "Hello world."
RunTranscription ==
  \E req \in Forwarded("transform"),
     o \in TranscriptionOutcomes \cup
            {[extract |-> "ok",
              transcribe |-> [raise |-> FALSE,
                              result |-> [text |-> HelloWorld,
                                          segments |-> <<Segment(NearestDouble(0, 1),
                                                                 NearestDouble(4100, 1000),
                                                                 HelloWorld)>>,
                                          language |-> "en"]],
              srt |-> "ok", transcript |-> "ok", post |-> p] : p \in PostOutcomes} :
    Passed("transcription", req, o, generate_subtitles_endpoint(req, fs, o, o.post))

RunCaption ==
  \E req \in Forwarded("transcription"), o \in CaptionOutcomes :
    /\ Falsy(req.data, "transcript")
         => o = [ollama |-> Ollama(TRUE, <<>>), post |-> "exception"]
    /\ Passed("caption", req, o,
              generate_captions_endpoint(req, fs, o.ollama, o.post))

RunAssembly ==
  \E req \in Forwarded("caption"), o \in AssemblyOutcomes :
    Passed("assembly", req, o, assemble_files_endpoint(req, fs, o, o.post))

NextRun == RunWatch \/ RunTransform \/ RunTranscription \/ RunCaption \/ RunAssembly

SpecRun == InitRun /\ [][NextRun]_vars

\* C17: end to end, for a video named clip.mp4 with duration 45.0, Transform
\* emits video_type=shorts; the transcript "Hello world." passed through
\* Caption while the generation call fails yields the title
\* "Great shorts - clip.mp4"; the resulting record passed through Assembly
\* yields an output_folder named "clip" and a files list with an entry of
\* type summary.
EndToEndScenario ==
  LET scenario == /\ handoffs["transform"] # <<>>
                  /\ handoffs["transform"][1]["duration"] = 45 * DurationScale
  IN  /\ (/\ stage = "transform"
          /\ response.code = 200
          /\ outcome.probe = Probe("duration", 45 * DurationScale)) =>
           response.body["video_type"] = Shorts
      /\ (/\ stage = "caption"
          /\ scenario
          /\ request.data["transcript"] = HelloWorld
          /\ outcome.ollama.raise) =>
           /\ response.code = 200
           /\ response.body["title"] =
                <<"G", "r", "e", "a", "t", " ", "s", "h", "o", "r", "t", "s",
                  " ", "-", " ", "c", "l", "i", "p", ".", "m", "p", "4">>
      /\ (/\ stage = "assembly"
          /\ scenario
          /\ request.data["transcript"] = HelloWorld
          /\ outcome.mkdir = "ok"
          /\ outcome.failing = "none") =>
           /\ response.code = 200
           /\ response.body["output_folder"] = Join(OUTPUT_DIR, <<"c", "l", "i", "p">>)
           /\ \E i \in 1..Len(response.body["files"]) :
                response.body["files"][i].type = "summary"

\* C18: in every pipeline run that starts at the Watcher, every record emitted
\* by Transform, Transcription or Caption that carries video_type also
\* carries duration, has video_type = shorts exactly when duration <= 60, and
\* carries the video_type Transform set: no later stage changes it.
VideoTypeKept ==
  LET producers == {"transform", "transcription", "caption"}
      answered  == IF stage \in producers /\ response.code = 200
                   THEN {response.body} ELSE {}
      handed    == UNION {{handoffs[s][i] : i \in 1..Len(handoffs[s])} : s \in producers}
  IN  \A rec \in answered \cup handed :
        "video_type" \in DOMAIN rec =>
          /\ "duration" \in DOMAIN rec
          /\ rec["video_type"] \in {Shorts, Standard}
          /\ rec["video_type"] = Shorts <=> rec["duration"] <= 60 * DurationScale
          /\ \A i \in 1..Len(handoffs["transform"]) :
               rec["video_type"] = handoffs["transform"][i]["video_type"]

\* Caption answered with a record that carries the Shorts type set by
\* Transform two stages earlier
VideoTypeKeptWitness ==
  /\ stage = "caption"
  /\ response.code = 200
  /\ handoffs["transform"] # <<>>
  /\ "video_type" \in DOMAIN response.body
  /\ response.body["video_type"] = Shorts
  /\ response.body["duration"] = 60 * DurationScale

\* C25: a Caption work request whose transcript is the empty string, as
\* Transcription emits for a video with no speech, is answered HTTP 400
\* without a generation call and without a hand-off, so no caption record for
\* that job is forwarded toward Assembly.
EmptyTranscriptRejected ==
  /\ (/\ stage = "caption"
      /\ request.isObject
      /\ "transcript" \in DOMAIN request.data
      /\ request.data["transcript"] = <<>>) =>
       /\ response.code = 400
       /\ response.body = [error |-> "No transcript provided"]
       /\ \A i \in 1..Len(trace) : trace[i] \notin {"generate", "post"}
       /\ delivered = <<>>
       /\ handoffs["caption"] = <<>>
       /\ fs = fsBefore
  /\ stage = "assembly" =>
       /\ handoffs["transcription"] # <<>>
       /\ handoffs["transcription"][1]["transcript"] # <<>>

\* Caption has answered the record Transcription handed off for a video in
\* which no speech was heard
EmptyTranscriptRejectedWitness ==
  /\ stage = "caption"
  /\ handoffs["transcription"] # <<>>
  /\ request = JsonObject(handoffs["transcription"][1])
  /\ request.data["transcript"] = <<>>
  /\ response.code = 400

\* ------------------------------------------------------------------------
\* _parse_response on its own
\* ------------------------------------------------------------------------

\* the lines a generation response is made of: "TITLE: First take",
\* "TITLE: Second take", "DESCRIPTION: One.", "DESCRIPTION: Two.",
\* "Sure! Here it is:", "  TITLE:   Padded  ", "TITLE: Part TITLE: two",
\* "TAGS: [fun, clip]", "TAGS: [fun], [clip]", "TAGS:  fun , , clip ,", and
\* "TITLE: " followed by a title of 57 to MaxTitle characters
ResponseLines ==
  {<<"T", "I", "T", "L", "E", ":", " ", "F", "i", "r", "s", "t", " ", "t", "a", "k", "e">>,
   <<"T", "I", "T", "L", "E", ":", " ", "S", "e", "c", "o", "n", "d", " ", "t", "a", "k", "e">>,
   <<"D", "E", "S", "C", "R", "I", "P", "T", "I", "O", "N", ":", " ", "O", "n", "e", ".">>,
   <<"D", "E", "S", "C", "R", "I", "P", "T", "I", "O", "N", ":", " ", "T", "w", "o", ".">>,
   <<"S", "u", "r", "e", "!", " ", "H", "e", "r", "e", " ", "i", "t", " ", "i", "s", ":">>,
   <<" ", " ", "T", "I", "T", "L", "E", ":", " ", " ", " ", "P", "a", "d", "d", "e", "d", " ", " ">>,
   <<"T", "I", "T", "L", "E", ":", " ", "P", "a", "r", "t", " ", "T", "I", "T", "L", "E", ":", " ", "t", "w", "o">>,
   <<"T", "A", "G", "S", ":", " ", "[", "f", "u", "n", ",", " ", "c", "l", "i", "p", "]">>,
   <<"T", "A", "G", "S", ":", " ", "[", "f", "u", "n", "]", ",", " ", "[", "c", "l", "i", "p", "]">>,
   <<"T", "A", "G", "S", ":", " ", " ", "f", "u", "n", " ", ",", " ", ",", " ", "c", "l", "i", "p", " ", ",">>}
    \cup {TitlePrefix \o <<" ">> \o [i \in 1..n |-> "x"] : n \in 57..MaxTitle}

RECURSIVE JoinLines(_)
\* "\n".join(lines)
JoinLines(lines) ==
  IF Len(lines) = 1 THEN lines[1]
  ELSE lines[1] \o <<"\n">> \o JoinLines(Tail(lines))

\* the generation response is made of 1 to MaxLines of these lines
InitParse ==
  /\ InitPipeline /\ InitStamp
  /\ events = <<>>
  /\ observer = [pc |-> "idle", payload |-> <<>>]
  /\ outbox = <<>>
  /\ jobs = <<>>
  /\ handoffs = [s \in {"watcher"} \cup Stages |-> <<>>]
  /\ llmText \in {JoinLines(lines) :
                    lines \in UNION {[1..n -> ResponseLines] : n \in 1..MaxLines}}
  /\ llmParsed = <<>>
  /\ boot = [pc |-> "probe", probes |-> 0, waited |-> 0, model_loaded |-> FALSE,
            last |-> <<>>]

\* generate_captions hands the response text to _parse_response
ParseResponse ==
  /\ llmParsed = <<>>
  /\ llmParsed' = <<parse_response(llmText, ClipName, Shorts)>>
  /\ UNCHANGED llmText
  /\ UNCHANGED <<pipelineVars, tsVars, events, observer, outbox, jobs, handoffs,
                 boot>>

SpecParse == InitParse /\ [][ParseResponse]_vars

\* C19: when the response has several lines beginning with the same prefix,
\* _parse_response takes the title from the first line beginning with TITLE:
\* and the description from the first line beginning with DESCRIPTION: (the
\* content after the prefix, trimmed); later lines with the same prefix and
\* lines matching no prefix do not change the result.
FirstPrefixedLineWins ==
  LET lines          == Split(llmText, "\n")
      with(prefix)   == {i \in 1..Len(lines) : StartsWith(Strip(lines[i]), prefix)}
      first(prefix)  == CHOOSE i \in with(prefix) : \A j \in with(prefix) : i <= j
      after(i, prefix) ==
        Strip(SubSeq(Strip(lines[i]), Len(prefix) + 1, Len(Strip(lines[i]))))
      limited(t)     == IF Len(t) > 60 THEN SubSeq(t, 1, 57) \o <<".", ".", ".">> ELSE t
  IN  llmParsed # <<>> =>
        /\ with(TitlePrefix) # {} =>
             llmParsed[1]["title"] = limited(after(first(TitlePrefix), TitlePrefix))
        /\ with(DescriptionPrefix) # {} =>
             llmParsed[1]["description"]
               = after(first(DescriptionPrefix), DescriptionPrefix)

\* C20: every title _parse_response takes from a TITLE: line has at most 60
\* characters: when the trimmed content after the prefix is longer than 60
\* characters the title is its first 57 characters followed by "...",
\* otherwise the title is that content unchanged.
TitleLimited ==
  LET lines    == Split(llmText, "\n")
      titled   == {i \in 1..Len(lines) : StartsWith(Strip(lines[i]), TitlePrefix)}
      after(i) == Strip(SubSeq(Strip(lines[i]), Len(TitlePrefix) + 1,
                               Len(Strip(lines[i]))))
  IN  (llmParsed # <<>> /\ titled # {}) =>
        /\ Len(llmParsed[1]["title"]) <= 60
        /\ \E i \in titled :
             llmParsed[1]["title"]
               = IF Len(after(i)) > 60
                 THEN SubSeq(after(i), 1, 57) \o <<".", ".", ".">>
                 ELSE after(i)

\* C21: when tags are taken from a TAGS: line, the list holds the
\* comma-separated entries of that line in their original order, and every tag
\* is non-empty, has no leading or trailing whitespace and has no surrounding
\* bracket character, also when brackets surround individual entries rather
\* than the whole list.
TagsClean ==
  LET lines      == Split(llmText, "\n")
      tagged     == {i \in 1..Len(lines) : StartsWith(Strip(lines[i]), TagsPrefix)}
      around     == Whitespace \cup {"[", "]"}
      after(i)   == SubSeq(Strip(lines[i]), Len(TagsPrefix) + 1, Len(Strip(lines[i])))
      entries(i) == LET parts == Split(after(i), ",")
                    IN  SelectSeq([k \in 1..Len(parts) |-> StripChars(parts[k], around)],
                                  LAMBDA e : e # <<>>)
      tags       == llmParsed[1]["tags"]
  IN  (llmParsed # <<>> /\ tagged # {}) =>
        /\ \E i \in tagged : tags = entries(i)
        /\ \A k \in 1..Len(tags) :
             /\ tags[k] # <<>>
             /\ tags[k][1] \notin around
             /\ tags[k][Len(tags[k])] \notin around

\* ------------------------------------------------------------------------
\* The start of the Caption process: the module builds its AICaptionAgent,
\* whose constructor runs ensure_model_loaded, before app.run serves requests
\* ------------------------------------------------------------------------

max_retries == 5

\* one pass of the loop in ensure_model_loaded up to its sleep, setting
\* model_loaded for every answer with status 200
ensure_model_loaded_any_200(b, answer) ==
  LET ready == ~answer.raised /\ answer.status_code = 200
  IN  [pc           |-> IF ready THEN "serving" ELSE "sleep",
       probes       |-> b.probes + 1,
       waited       |-> b.waited,
       model_loaded |-> b.model_loaded \/ ready,
       last         |-> <<answer>>]

\* one pass of the loop in AICaptionAgent.ensure_model_loaded up to its
\* sleep: the probe of /api/tags was answered with answer, or raised
ensure_model_loaded(b, answer) ==
  LET llama == <<"l", "l", "a", "m", "a">>
      ready == /\ ~answer.raised
               /\ answer.status_code = 200
               /\ \E i \in 1..Len(answer.models) :
                    Find(Lower(answer.models[i]), llama) # 0
  IN  [pc           |-> IF ready THEN "serving" ELSE "sleep",
       probes       |-> b.probes + 1,
       waited       |-> b.waited,
       model_loaded |-> b.model_loaded \/ ready,
       last         |-> <<answer>>]

\* requests.get(".../api/tags", timeout=10) returns or raises; the backend
\* lists no model, "mistral:7b", or "mistral:7b" and "Llama3.1:8B"
ProbeBackend ==
  /\ boot.pc = "probe"
  /\ \E answer \in
         {[raised |-> TRUE, status_code |-> 0, models |-> <<>>],
          [raised |-> FALSE, status_code |-> 503, models |-> <<>>]}
         \cup {[raised |-> FALSE, status_code |-> 200, models |-> models] :
                 models \in {<<>>,
                             <<<<"m", "i", "s", "t", "r", "a", "l", ":", "7", "b">>>>,
                             <<<<"m", "i", "s", "t", "r", "a", "l", ":", "7", "b">>,
                               <<"L", "l", "a", "m", "a", "3", ".", "1", ":", "8", "B">>>>}} :
       boot' = ensure_model_loaded(boot, answer)
  /\ UNCHANGED <<pipelineVars, tsVars, events, observer, outbox, jobs, handoffs,
                 llmText, llmParsed>>

\* time.sleep(5) after a probe that did not find the model, then the next
\* pass of range(max_retries), or the end of the loop
Sleep ==
  /\ boot.pc = "sleep"
  /\ boot' = [boot EXCEPT !.waited = @ + 5,
                          !.pc = IF boot.probes < max_retries THEN "probe"
                                 ELSE "serving"]
  /\ UNCHANGED <<pipelineVars, tsVars, events, observer, outbox, jobs, handoffs,
                 llmText, llmParsed>>

\* app.run: the first POST /generate-captions after the start
ServeCaption ==
  /\ boot.pc = "serving"
  /\ stage = "none"
  /\ Caption

NextStartup == ProbeBackend \/ Sleep \/ ServeCaption

\* the constructor's thread keeps running: a probe returns or raises within
\* its timeout, and a sleep ends
SpecStartup ==
  Init /\ [][NextStartup]_vars /\ WF_vars(ProbeBackend) /\ WF_vars(Sleep)

\* C24: the wait for the generation backend's readiness happens only at the
\* start of the Caption process and always ends after at most 5 probes with a
\* sleep of 5 seconds after each probe that did not find the model, whether or
\* not the backend ever becomes ready; model_loaded is true only when a probe
\* was answered 200 and listed a llama model; a caption request that reaches
\* generation makes exactly one generation call and no request makes more than
\* one, whatever the value of model_loaded.
ReadinessWaitBounded ==
  LET llama     == <<"l", "l", "a", "m", "a">>
      generated == Cardinality({i \in 1..Len(trace) : trace[i] = "generate"})
      accepted  == /\ request.isObject
                   /\ "transcript" \in DOMAIN request.data
                   /\ request.data["transcript"] # <<>>
  IN  /\ [](/\ boot.probes <= max_retries
            /\ boot.pc = "probe" =>
                 boot.probes < max_retries /\ boot.waited = 5 * boot.probes
            /\ boot.waited <= 5 * max_retries
            /\ boot.model_loaded =>
                 /\ boot.last # <<>>
                 /\ ~boot.last[1].raised
                 /\ boot.last[1].status_code = 200
                 /\ \E i \in 1..Len(boot.last[1].models) :
                      \E k \in 1..(Len(boot.last[1].models[i]) - 4) :
                        Lower(SubSeq(boot.last[1].models[i], k, k + 4)) = llama
            /\ stage # "none" => boot.pc = "serving"
            /\ stage = "caption" =>
                 /\ generated <= 1
                 /\ accepted => generated = 1)
      /\ \A n \in 0..max_retries :
           []((boot.pc = "serving" /\ boot.probes = n)
                => [](boot.pc = "serving" /\ boot.probes = n))
      /\ <>(boot.pc = "serving")

\* the backend never became ready: five probes, none listing a llama model,
\* and then a caption request that was answered with captions after one
\* generation call
ReadinessWaitBoundedWitness ==
  /\ boot.pc = "serving"
  /\ boot.probes = max_retries
  /\ ~boot.model_loaded
  /\ stage = "caption"
  /\ response.code = 200
  /\ \E i \in 1..Len(trace) : trace[i] = "generate"

====
